---- MODULE Spec2Model ----
(***************************************************************************)
(* Model of the github-scan auditing pipeline:                             *)
(*   - bin/check.ts + src/worker.ts : the parallel batch-GCD audit         *)
(*     (driver process and forked worker processes);                       *)
(*   - the single-process check it replaced;                               *)
(*   - bin/flatten.ts : key extraction and Bloom-filter deduplication;     *)
(*   - src/common.ts : parseSSHRSAKey, splitParse, journal discovery and   *)
(*     ingestion, productTree, remainderTree, keysFileName;                *)
(*   - getUnorderedPairIterator and the reader threads of src/worker.ts;   *)
(*   - bin/compare.ts : the merge of two journals by user id;              *)
(*   - bin/collect.ts : the harvester's chunk rotation and resumption.     *)
(* Strings are modelled as sequences of one-character strings, so that     *)
(* number formatting and parsing are computed, not assumed.                *)
(***************************************************************************)
EXTENDS Integers, Sequences, FiniteSets, TLC

(***************************************************************************)
(* Bounds of the model.                                                    *)
(***************************************************************************)
\* largest modulus value in a generated modulus list
MaxModulus == 3
\* largest number of moduli read from the modulus list file
MaxReal == 3
\* largest number of CPUs reported by os.cpus()
MaxCpu == 4
\* number of bits of the (scaled-down) Bloom filter
BloomBits == 2
\* largest number of journal records read in one run of the extract tool
MaxRecords == 2
\* largest number of journal files opened in one run of the extract tool
MaxFiles == 2

(***************************************************************************)
(* Number <-> string conversions (BigInt.prototype.toString(16),           *)
(* BigInt("0x..."), Number.prototype.toString()).                          *)
(***************************************************************************)
HexChars == <<"0","1","2","3","4","5","6","7","8","9","a","b","c","d","e","f">>

RECURSIVE ToDigits(_, _)
\* n.toString(base) for n >= 0: most significant digit first, "0" for zero
ToDigits(n, base) ==
  IF n < base THEN <<HexChars[n + 1]>>
  ELSE Append(ToDigits(n \div base, base), HexChars[(n % base) + 1])

\* bigint.toString(16)
ToHex(n) == ToDigits(n, 16)

\* number.toString() as used in a template literal
ToDec(n) == ToDigits(n, 10)

\* value of one hexadecimal digit character
HexValue(c) == CHOOSE d \in 0..15 : HexChars[d + 1] = c

RECURSIVE ParseHexDigits(_)
ParseHexDigits(s) ==
  IF s = <<>> THEN 0
  ELSE 16 * ParseHexDigits(SubSeq(s, 1, Len(s) - 1)) + HexValue(s[Len(s)])

\* `0x${v.toString(16)}`
HexLiteral(n) == <<"0", "x">> \o ToHex(n)

\* BigInt(str) for a string of the form 0x<hex digits>
BigIntOf(str) == ParseHexDigits(SubSeq(str, 3, Len(str)))

\* parseModulo(value) == BigInt(`0x${value}`)
parseModulo(value) == BigIntOf(<<"0", "x">> \o value)

(***************************************************************************)
(* Arrays are 1-based sequences here; JavaScript index j is position j+1.  *)
(***************************************************************************)
\* array.slice(from, to) with 0-based half-open bounds
Slice(arr, from, to) ==
  IF to <= from THEN <<>>
  ELSE SubSeq(arr, from + 1, IF to > Len(arr) THEN Len(arr) ELSE to)

RECURSIVE Flat(_)
\* Array.prototype.flat() on an array of arrays
Flat(arrs) == IF arrs = <<>> THEN <<>> ELSE Head(arrs) \o Flat(Tail(arrs))

(***************************************************************************)
(* Big-integer tree primitives.                                            *)
(***************************************************************************)
RECURSIVE gcd(_, _)
gcd(a, b) == IF b = 0 THEN a ELSE gcd(b, a % b)

\* a mutant of PairProducts: the pairs overlap (entries j and j + 1)
PairProductsOverlapping(values) ==
  [j \in 1..(Len(values) \div 2) |-> values[j] * values[j + 1]]

\* one level up: res[i/2] = values[i] * values[i+1]
PairProducts(values) ==
  [j \in 1..(Len(values) \div 2) |-> values[2 * j - 1] * values[2 * j]]

\* a mutant of OddLength: the length is never found odd
NeverOddLength(values) == FALSE

\* if (values.length % 2 !== 0)
OddLength(values) == Len(values) % 2 # 0

RECURSIVE ProductTreeThrows(_)
\* productTree raises (Invalid values, or unbounded recursion on the empty
\* array) instead of returning
ProductTreeThrows(values) ==
  IF Len(values) = 1 THEN FALSE
  ELSE IF OddLength(values) THEN TRUE
  ELSE IF Len(values) = 0 THEN TRUE
  ELSE ProductTreeThrows(PairProducts(values))

RECURSIVE productTree(_)
\* the levels of the product tree, root level first, leaves last
productTree(values) ==
  IF Len(values) = 1 THEN << <<values[1]>> >>
  ELSE Append(productTree(PairProducts(values)), values)

\* a mutant of RemainderLevel: the remainder modulo the node, not its square
RemainderLevelNoSquare(prev, curr) ==
  [j \in 1..Len(curr) |-> prev[((j - 1) \div 2) + 1] % curr[j]]

\* one level down: result[j] = prev[j >>> 1] % (curr[j] ** 2)
RemainderLevel(prev, curr) ==
  [j \in 1..Len(curr) |-> prev[((j - 1) \div 2) + 1] % (curr[j] * curr[j])]

RECURSIVE RemainderFrom(_, _, _)
RemainderFrom(tree, i, prev) ==
  IF i > Len(tree) THEN prev
  ELSE RemainderFrom(tree, i + 1, RemainderLevel(prev, tree[i]))

\* a mutant of remainderTree: only the first level below the head is reduced
remainderTreeOneLevel(tree) ==
  IF Len(tree) = 1 THEN tree[1] ELSE RemainderLevel(tree[1], tree[2])

\* remainderTree(tree): starts from tree[0] and reduces level by level
remainderTree(tree) == RemainderFrom(tree, 2, tree[1])

(***************************************************************************)
(* Match list and output lines (shared by both versions of the audit).     *)
(***************************************************************************)
\* for (const [ i, gcd ] of gcds.entries()) if (gcd !== 1n) matches.push(...)
MatchesOf(gcds) ==
  SelectSeq([j \in 1..Len(gcds) |-> [index |-> j - 1, divisor |-> gcds[j]]],
            LAMBDA m : m.divisor # 1)

\* a mutant of MatchLine: the divisor printed in decimal
MatchLineDecimal(match) == ToDec(match.index) \o <<",">> \o ToDec(match.divisor)

\* `${match.index},${match.divisor.toString(16)}` (the trailing LF ends the line)
MatchLine(match) == ToDec(match.index) \o <<",">> \o ToHex(match.divisor)

\* the lines main writes to standard output
PrintMatches(ms) == [j \in 1..Len(ms) |-> MatchLine(ms[j])]

\* padSize: 1 doubled while smaller than the length, minus the length
RECURSIVE PadTarget(_, _)
PadTarget(padSize, len) == IF padSize < len THEN PadTarget(2 * padSize, len) ELSE padSize

\* a mutant of PadModuli: the pad value is 2 instead of 1
PadModuliWithTwo(mods) == mods \o [j \in 1..(PadTarget(1, Len(mods)) - Len(mods)) |-> 2]

\* main: right-pad the moduli with BigInt(1) up to a power of two
PadModuli(mods) == mods \o [j \in 1..(PadTarget(1, Len(mods)) - Len(mods)) |-> 1]

\* main: the moduli parsed from the lines of the modulus list
ReadModuli(lines) == [j \in 1..Len(lines) |-> parseModulo(lines[j])]

(***************************************************************************)
(* The single-process check.                                               *)
(***************************************************************************)
\* quotients[i] = remainders[i] / moduli[i]; gcds[i] = gcd(quotients[i], moduli[i])
SingleGcds(mods) ==
  LET remainders == remainderTree(productTree(mods))
  IN  [j \in 1..Len(mods) |-> gcd(remainders[j] \div mods[j], mods[j])]

\* check(moduli) of the single-process tool
checkSingle(mods) == MatchesOf(SingleGcds(mods))

(***************************************************************************)
(* The parallel check: driver (bin/check.ts) and workers (src/worker.ts).  *)
(* Worker w of the model is workers[w - 1] of the code.                    *)
(***************************************************************************)
VARIABLES
  keyList,    \* the lines of the modulus list file (hex strings)
  cpuCount,   \* CPU_COUNT
  pc,         \* where the driver is
  error,      \* message of the error that ended the driver, "" if none
  moduli,     \* main's moduli array
  treeTops,   \* results of the first Promise.all, 0 while a promise is pending
  gcdsRes,    \* results of the second Promise.all, <<>> while pending
  listening,  \* the once('message') listener installed on each worker
  matches,    \* what check() returned
  stdout,     \* the lines written to standard output
  wState,     \* per worker process: "running", "crashed", "killed"
  wModuli,    \* per worker: its `moduli` (<<>> while undefined)
  wTree,      \* per worker: its `tree` (<<>> while undefined)
  toWorker,   \* per worker: messages sent by the driver, not yet handled
  toDriver,   \* per worker: messages sent by the worker, not yet delivered
  sentLog,    \* history: every message the driver sent to each worker
  replyLog,   \* history: every message each worker sent
  outOfOrder  \* history: some reply was delivered before that of a lower worker

checkVars == <<keyList, cpuCount, pc, error, moduli, treeTops, gcdsRes, listening,
               matches, stdout, wState, wModuli, wTree, toWorker, toDriver,
               sentLog, replyLog, outOfOrder>>

\* the modulus lists of the end-to-end scenarios S1, S2 and S6
ScenarioLists == { <<15, 77, 221>>, <<15, 21, 77>>, <<15, 21, 77, 143>> }

\* a list of six moduli, padded to eight (two tree levels below each of four
\* workers' roots, or four leaves under each of two), and a list of moduli
\* that are not squarefree
DeepLists == { <<6, 10, 15, 7, 22, 13>>, <<4, 6, 9>> }

\* every list of at most MaxReal moduli in 1..MaxModulus
SmallLists == UNION { [1..n -> 1..MaxModulus] : n \in 0..MaxReal }

\* a modulus list file as the extract tool writes it: one hex modulus per line
HexLines(mods) == [j \in 1..Len(mods) |-> ToHex(mods[j])]

Workers == 1..Len(wState)

\* a mutant of RejectsWorkerCount: only too many workers are rejected
RejectsOnlyTooMany(n, k) == n < k

\* if (moduli.length % CPU_COUNT !== 0) throw
RejectsWorkerCount(n, k) == n % k # 0

\* a mutant of PartitionOf: every worker is sent the first partition
PartitionFirst(mods, i, splitSize) == Slice(mods, 0, splitSize)

\* moduli.slice(i * splitSize, (i + 1) * splitSize)
PartitionOf(mods, i, splitSize) == Slice(mods, i * splitSize, (i + 1) * splitSize)

\* index of the first pending entry of a Promise.all result array
FirstPending(results, pending) ==
  CHOOSE j \in 1..Len(results) :
    /\ results[j] = pending
    /\ \A h \in 1..(j - 1) : results[h] # pending

\* a mutant of PromiseResolve: results are collected in order of arrival
PromiseResolveArrival(results, w, value, pending) ==
  [results EXCEPT ![FirstPending(results, pending)] = value]

\* Promise.all keeps each value at the position of its promise
PromiseResolve(results, w, value, pending) == [results EXCEPT ![w] = value]

\* Promise.all resolves when no promise is pending
AllSettled(results, pending) == \A j \in 1..Len(results) : results[j] # pending

\* a mutant of HeadRemainders: each worker gets its own root back
HeadRemaindersLocal(tops) == tops

\* remainderTree(productTree(treeTops)): the head remainder of each worker
HeadRemainders(tops) == remainderTree(productTree(tops))

\* a mutant of SpliceHead: the worker keeps the root of its own tree
SpliceHeadKeepRoot(tree, head) == tree

\* treeCopy = tree.slice(); treeCopy[0] = [ head ]
SpliceHead(tree, head) == [tree EXCEPT ![1] = <<head>>]

\* a mutant of Quotient: the remainder is reduced instead of divided
QuotientMod(remainder, modulus) == remainder % modulus

\* remainders[i] / moduli[i] (bigint division truncates)
Quotient(remainder, modulus) == remainder \div modulus

\* a mutant of WorkerGcds: the gcd of each modulus with its remainder reduced
\* modulo the modulus
WorkerGcdsModForm(mods, tree, head) ==
  LET remainders == remainderTree(SpliceHead(tree, head))
  IN  [j \in 1..Len(mods) |-> gcd(remainders[j] % mods[j], mods[j])]

\* the gcds a worker computes from the head it was sent
WorkerGcds(mods, tree, head) ==
  LET remainders == remainderTree(SpliceHead(tree, head))
  IN  [j \in 1..Len(mods) |-> gcd(Quotient(remainders[j], mods[j]), mods[j])]

(***************************************************************************)
(* State of the extract tool (bin/flatten.ts); idle while the audit runs.  *)
(***************************************************************************)
VARIABLES
  fpc,           \* where the extract tool is
  locations,     \* the bit positions the filter's hash functions give each key
  seen,          \* the Bloom filter: the set of bit positions that are set
  out,           \* what has been written to the output stream
  filesOpened,   \* number of journal files opened so far
  recordsRead,   \* number of journal records read so far
  yielded,       \* history: the moduli parseSSHRSAKey returned, in order
  added,         \* history: the keys passed to seen.add
  falsePositive, \* history: seen.test answered true for a key never added
  firstOut,      \* the output of the first run, kept to run it through again
  rerunInput     \* the part of firstOut the second run has not read yet

flattenVars == <<fpc, locations, seen, out, filesOpened, recordsRead, yielded,
                 added, falsePositive, firstOut, rerunInput>>

(***************************************************************************)
(* State of the journal readers (src/common.ts, readKeys of                *)
(* bin/flatten.ts); idle while the audit or the extract tool runs.         *)
(***************************************************************************)
VARIABLES
  rkStatus,      \* where readKeys is: idle, reading, threw or end
  rkKeys,        \* pair.keys of the record readKeys is handling
  rkPos,         \* number of keys of the record handled so far
  rkYield,       \* the moduli readKeys has yielded, in order
  rkLog          \* history: what parseSSHRSAKey returned for each key handled

readKeysVars == <<rkStatus, rkKeys, rkPos, rkYield, rkLog>>

VARIABLES
  spStatus,      \* where splitParse is: idle, reading or end
  spStream,      \* history: all the bytes of the stream
  spRest,        \* the bytes the stream has not delivered yet
  spBuffer,      \* buffer: the text of the line read so far
  spYield        \* the strings handed to parse and yielded, in order

splitParseVars == <<spStatus, spStream, spRest, spBuffer, spYield>>

VARIABLES
  giStatus,      \* where getPairIterator is: idle, start, next, reading or end
  giListing,     \* what readdir returns for the directory
  giFiles,       \* files: the names getKeysFiles returned
  giIndex,       \* number of files opened so far
  giOpened,      \* history: the names of the files opened, in order
  giEvents       \* history: per record delivered, the file it came from

pairIteratorVars == <<giStatus, giListing, giFiles, giIndex, giOpened, giEvents>>

VARIABLES
  mlStatus,      \* where the modulus list is: idle, start, written, read or error
  mlList,        \* the modulus table: the moduli the extract tool emits
  mlEncoding,    \* the form the list is written in: hex or packed
  mlFile,        \* the bytes of the modulus list file
  mlModuli       \* moduli: what main of the audit has read from the file

modulusListVars == <<mlStatus, mlList, mlEncoding, mlFile, mlModuli>>

VARIABLES
  hvStatus,      \* where the harvester is: idle, stopped, running or error
  hvJson,        \* per chunk id, the uncompressed journal keys-<id>.json
  hvXz,          \* per chunk id, the compressed journal keys-<id>.json.xz
  hvPending,     \* the chunk ids whose xz process has not finished
  hvChunkId,     \* chunkId of main
  hvSize,        \* size of main: records in the current chunk
  hvCurrent,     \* the next user id fetchPairs asks for
  hvOut,         \* whether out, the write stream of main, is open
  hvRuns         \* number of runs started so far

harvesterVars == <<hvStatus, hvJson, hvXz, hvPending, hvChunkId, hvSize,
                   hvCurrent, hvOut, hvRuns>>

VARIABLES
  ptStatus,      \* where the call of productTree is: idle, call, returned or threw
  ptValues,      \* values: the argument of productTree
  ptTree,        \* the tree productTree returned
  ptHead,        \* the value at level 0 of the tree remainderTree is called on
  ptRemainders   \* the array remainderTree returned

productTreeVars == <<ptStatus, ptValues, ptTree, ptHead, ptRemainders>>

VARIABLES
  upStatus,      \* where getUnorderedPairIterator is: idle or running
  upFiles,       \* the records of each journal file of the directory, in order
  upWorkers,     \* cpus().length: the number of reader threads
  upPosted,      \* per reader thread: the number of messages it has posted
  upInbox,       \* per reader thread: its messages not yet handled by on('message')
  upHandled,     \* per reader thread: the number of its messages handled
  upBuffer,      \* buffer: the records received and not yet yielded
  upRemaining,   \* remaining
  upResume,      \* whether resume is set: a call of next is waiting
  upYielded,     \* the records next has resolved with, in order
  upDone         \* whether next has resolved with done

unorderedVars == <<upStatus, upFiles, upWorkers, upPosted, upInbox, upHandled,
                   upBuffer, upRemaining, upResume, upYielded, upDone>>

VARIABLES
  cmStatus,      \* where main of the compare tool is: idle, merge, drainOld,
                 \* drainNew or done
  cmOld,         \* the user ids of the records of the old directory, in order
  cmNew,         \* the user ids of the records of the new directory, in order
  cmOldNext,     \* the number of calls of oldIter.next() so far
  cmNewNext,     \* the number of calls of newIter.next() so far
  cmLeft,        \* stats.left
  cmJoined,      \* stats.joined
  cmCompared,    \* the number of calls of compare
  cmClassified   \* the calls of compare, onLeave and onJoin so far

compareVars == <<cmStatus, cmOld, cmNew, cmOldNext, cmNewNext, cmLeft, cmJoined,
                 cmCompared, cmClassified>>

VARIABLES
  knStatus,      \* where the call of keysFileName is: idle, loop, returned or
                 \* looping (still in its loop after MaxPadSteps iterations)
  knChunkId,     \* chunkId: the argument of keysFileName
  knChunk,       \* chunk: the string being padded
  knSteps,       \* the number of iterations of the loop so far
  knName         \* the name returned

keysFileNameVars == <<knStatus, knChunkId, knChunk, knSteps, knName>>

toolVars == <<readKeysVars, splitParseVars, pairIteratorVars, modulusListVars,
              harvesterVars, productTreeVars, unorderedVars, compareVars,
              keysFileNameVars>>

\* what each tool leaves alone
notReadKeys ==
  <<checkVars, flattenVars, splitParseVars, pairIteratorVars,
    modulusListVars, harvesterVars, productTreeVars, unorderedVars,
    compareVars, keysFileNameVars>>
notSplitParse ==
  <<checkVars, flattenVars, readKeysVars, pairIteratorVars,
    modulusListVars, harvesterVars, productTreeVars, unorderedVars,
    compareVars, keysFileNameVars>>
notPairIterator ==
  <<checkVars, flattenVars, readKeysVars, splitParseVars, modulusListVars,
    harvesterVars, productTreeVars, unorderedVars, compareVars,
    keysFileNameVars>>
notModulusList ==
  <<checkVars, flattenVars, readKeysVars, splitParseVars,
    pairIteratorVars, harvesterVars, productTreeVars, unorderedVars,
    compareVars, keysFileNameVars>>
notHarvester ==
  <<checkVars, flattenVars, readKeysVars, splitParseVars,
    pairIteratorVars, modulusListVars, productTreeVars, unorderedVars,
    compareVars, keysFileNameVars>>
notProductTree ==
  <<checkVars, flattenVars, readKeysVars, splitParseVars,
    pairIteratorVars, modulusListVars, harvesterVars, unorderedVars,
    compareVars, keysFileNameVars>>
notUnordered ==
  <<checkVars, flattenVars, readKeysVars, splitParseVars,
    pairIteratorVars, modulusListVars, harvesterVars, productTreeVars,
    compareVars, keysFileNameVars>>
notCompare ==
  <<checkVars, flattenVars, readKeysVars, splitParseVars,
    pairIteratorVars, modulusListVars, harvesterVars, productTreeVars,
    unorderedVars, keysFileNameVars>>
notKeysFileName ==
  <<checkVars, flattenVars, readKeysVars, splitParseVars,
    pairIteratorVars, modulusListVars, harvesterVars, productTreeVars,
    unorderedVars, compareVars>>

vars == <<checkVars, flattenVars, toolVars>>

\* readKeys is not running
ReadKeysIdle ==
  /\ rkStatus = "idle"
  /\ rkKeys = <<>>
  /\ rkPos = 0
  /\ rkYield = <<>>
  /\ rkLog = <<>>

\* splitParse is not running
SplitParseIdle ==
  /\ spStatus = "idle"
  /\ spStream = <<>>
  /\ spRest = <<>>
  /\ spBuffer = <<>>
  /\ spYield = <<>>

\* getPairIterator is not running
PairIteratorIdle ==
  /\ giStatus = "idle"
  /\ giListing = <<>>
  /\ giFiles = <<>>
  /\ giIndex = 0
  /\ giOpened = <<>>
  /\ giEvents = <<>>

\* no modulus list is being written or read
ModulusListIdle ==
  /\ mlStatus = "idle"
  /\ mlList = <<>>
  /\ mlEncoding = "hex"
  /\ mlFile = <<>>
  /\ mlModuli = <<>>

\* the harvester has never run
HarvesterIdle ==
  /\ hvStatus = "idle"
  /\ hvJson = <<>>
  /\ hvXz = <<>>
  /\ hvPending = {}
  /\ hvChunkId = 0
  /\ hvSize = 0
  /\ hvCurrent = 0
  /\ hvOut = FALSE
  /\ hvRuns = 0

\* productTree is not being called
ProductTreeIdle ==
  /\ ptStatus = "idle"
  /\ ptValues = <<>>
  /\ ptTree = <<>>
  /\ ptHead = 0
  /\ ptRemainders = <<>>

\* getUnorderedPairIterator is not running
UnorderedIdle ==
  /\ upStatus = "idle"
  /\ upFiles = <<>>
  /\ upWorkers = 0
  /\ upPosted = <<>>
  /\ upInbox = <<>>
  /\ upHandled = <<>>
  /\ upBuffer = <<>>
  /\ upRemaining = 0
  /\ upResume = FALSE
  /\ upYielded = <<>>
  /\ upDone = FALSE

\* the compare tool is not running
CompareIdle ==
  /\ cmStatus = "idle"
  /\ cmOld = <<>>
  /\ cmNew = <<>>
  /\ cmOldNext = 0
  /\ cmNewNext = 0
  /\ cmLeft = 0
  /\ cmJoined = 0
  /\ cmCompared = 0
  /\ cmClassified = <<>>

\* keysFileName is not being called
KeysFileNameIdle ==
  /\ knStatus = "idle"
  /\ knChunkId = 0
  /\ knChunk = <<>>
  /\ knSteps = 0
  /\ knName = <<>>

\* only the named reader is running
OnlyRunning(tool) ==
  /\ IF tool = "getUnorderedPairIterator" THEN TRUE ELSE UnorderedIdle
  /\ IF tool = "compare" THEN TRUE ELSE CompareIdle
  /\ IF tool = "keysFileName" THEN TRUE ELSE KeysFileNameIdle
  /\ IF tool = "productTree" THEN TRUE ELSE ProductTreeIdle
  /\ IF tool = "harvester" THEN TRUE ELSE HarvesterIdle
  /\ IF tool = "readKeys" THEN TRUE ELSE ReadKeysIdle
  /\ IF tool = "splitParse" THEN TRUE ELSE SplitParseIdle
  /\ IF tool = "getPairIterator" THEN TRUE ELSE PairIteratorIdle
  /\ IF tool = "modulusList" THEN TRUE ELSE ModulusListIdle

\* no journal reader is running
ToolsIdle == OnlyRunning("none")

\* the extract tool is not running
FlattenIdle ==
  /\ fpc = "idle"
  /\ locations = <<>>
  /\ seen = {}
  /\ out = <<>>
  /\ filesOpened = 0
  /\ recordsRead = 0
  /\ yielded = <<>>
  /\ added = {}
  /\ falsePositive = FALSE
  /\ firstOut = <<>>
  /\ rerunInput = <<>>

InitCheck ==
  /\ FlattenIdle
  /\ ToolsIdle
  /\ keyList \in { HexLines(m) : m \in SmallLists \cup ScenarioLists \cup DeepLists }
  /\ cpuCount \in 1..MaxCpu
  /\ pc = "main"
  /\ error = ""
  /\ moduli = <<>>
  /\ treeTops = <<>>
  /\ gcdsRes = <<>>
  /\ listening = <<>>
  /\ matches = <<>>
  /\ stdout = <<>>
  /\ wState = <<>>
  /\ wModuli = <<>>
  /\ wTree = <<>>
  /\ toWorker = <<>>
  /\ toDriver = <<>>
  /\ sentLog = <<>>
  /\ replyLog = <<>>
  /\ outOfOrder = FALSE

\* main, up to the call of check: read the list and pad it
MainReadAndPad ==
  /\ pc = "main"
  /\ moduli' = PadModuli(ReadModuli(keyList))
  /\ pc' = "check"
  /\ UNCHANGED <<keyList, cpuCount, error, treeTops, gcdsRes, listening, matches,
                 stdout, wState, wModuli, wTree, toWorker, toDriver, sentLog,
                 replyLog, outOfOrder>>
  /\ UNCHANGED <<flattenVars, toolVars>>

\* check: the worker count does not divide the number of moduli
CheckReject ==
  /\ pc = "check"
  /\ RejectsWorkerCount(Len(moduli), cpuCount)
  /\ pc' = "error"
  /\ error' = "Need power of two processors"
  /\ UNCHANGED <<keyList, cpuCount, moduli, treeTops, gcdsRes, listening, matches,
                 stdout, wState, wModuli, wTree, toWorker, toDriver, sentLog,
                 replyLog, outOfOrder>>
  /\ UNCHANGED <<flattenVars, toolVars>>

\* the product-tree request for worker w
ProductTreeRequest(w) ==
  LET part == PartitionOf(moduli, w - 1, Len(moduli) \div cpuCount)
  IN  [type |-> "product-tree",
       moduli |-> [j \in 1..Len(part) |-> HexLiteral(part[j])]]

\* check: fork CPU_COUNT workers, install the listeners, send the partitions
CheckDistribute ==
  /\ pc = "check"
  /\ ~RejectsWorkerCount(Len(moduli), cpuCount)
  /\ wState' = [w \in 1..cpuCount |-> "running"]
  /\ wModuli' = [w \in 1..cpuCount |-> <<>>]
  /\ wTree' = [w \in 1..cpuCount |-> <<>>]
  /\ listening' = [w \in 1..cpuCount |-> "product-tree"]
  /\ treeTops' = [w \in 1..cpuCount |-> 0]
  /\ toWorker' = [w \in 1..cpuCount |-> <<ProductTreeRequest(w)>>]
  /\ sentLog' = [w \in 1..cpuCount |-> <<ProductTreeRequest(w)>>]
  /\ toDriver' = [w \in 1..cpuCount |-> <<>>]
  /\ replyLog' = [w \in 1..cpuCount |-> <<>>]
  /\ pc' = "awaitProducts"
  /\ UNCHANGED <<keyList, cpuCount, error, moduli, gcdsRes, matches, stdout, outOfOrder>>
  /\ UNCHANGED <<flattenVars, toolVars>>

\* the first once('message') listener of worker w runs
DriverOnProductTree(w) ==
  /\ pc = "awaitProducts"
  /\ w \in Workers
  /\ toDriver[w] # <<>>
  /\ listening[w] = "product-tree"
  /\ toDriver' = [toDriver EXCEPT ![w] = Tail(@)]
  /\ listening' = [listening EXCEPT ![w] = "none"]
  /\ IF Head(toDriver[w]).type # "product-tree"
     THEN /\ pc' = "error"
          /\ error' = "Unexpected message"
          /\ UNCHANGED treeTops
     ELSE /\ treeTops' = PromiseResolve(treeTops, w, BigIntOf(Head(toDriver[w]).top), 0)
          /\ UNCHANGED <<pc, error>>
  /\ outOfOrder' = (outOfOrder \/ \E v \in 1..(w - 1) : treeTops[v] = 0)
  /\ UNCHANGED <<keyList, cpuCount, moduli, gcdsRes, matches, stdout, wState,
                 wModuli, wTree, toWorker, sentLog, replyLog>>
  /\ UNCHANGED <<flattenVars, toolVars>>

\* a mutant of RemainderTreeRequest: the head is sent as a second product-tree
\* request
RemainderTreeRequestAsProduct(remainders, w) ==
  [type |-> "product-tree", moduli |-> <<HexLiteral(remainders[w])>>]

\* the remainder-tree request for worker w
RemainderTreeRequest(remainders, w) ==
  [type |-> "remainder-tree", head |-> HexLiteral(remainders[w])]

\* check, after the first Promise.all: head tree, head remainders, second round
DriverSendHeads ==
  /\ pc = "awaitProducts"
  /\ AllSettled(treeTops, 0)
  /\ IF ProductTreeThrows(treeTops)
     THEN /\ pc' = "error"
          /\ error' = "Invalid values"
          /\ UNCHANGED <<gcdsRes, listening, toWorker, sentLog>>
     ELSE IF Len(HeadRemainders(treeTops)) # Len(wState)
     THEN /\ pc' = "error"
          /\ error' = "Unexpected remainders length"
          /\ UNCHANGED <<gcdsRes, listening, toWorker, sentLog>>
     ELSE LET remainders == HeadRemainders(treeTops)
          IN  /\ gcdsRes' = [w \in Workers |-> <<>>]
              /\ listening' = [w \in Workers |-> "remainder-tree"]
              /\ toWorker' = [w \in Workers |->
                                Append(toWorker[w], RemainderTreeRequest(remainders, w))]
              /\ sentLog' = [w \in Workers |->
                                Append(sentLog[w], RemainderTreeRequest(remainders, w))]
              /\ pc' = "awaitGcds"
              /\ UNCHANGED error
  /\ UNCHANGED <<keyList, cpuCount, moduli, treeTops, matches, stdout, wState,
                 wModuli, wTree, toDriver, replyLog, outOfOrder>>
  /\ UNCHANGED <<flattenVars, toolVars>>

\* msg.gcds.map((num) => BigInt(num))
ParseGcds(strs) == [j \in 1..Len(strs) |-> BigIntOf(strs[j])]

\* the second once('message') listener of worker w runs
DriverOnRemainderTree(w) ==
  /\ pc = "awaitGcds"
  /\ w \in Workers
  /\ toDriver[w] # <<>>
  /\ listening[w] = "remainder-tree"
  /\ toDriver' = [toDriver EXCEPT ![w] = Tail(@)]
  /\ listening' = [listening EXCEPT ![w] = "none"]
  /\ IF Head(toDriver[w]).type # "remainder-tree"
     THEN /\ pc' = "error"
          /\ error' = "Unexpected message"
          /\ UNCHANGED gcdsRes
     ELSE /\ gcdsRes' = PromiseResolve(gcdsRes, w, ParseGcds(Head(toDriver[w]).gcds), <<>>)
          /\ UNCHANGED <<pc, error>>
  /\ outOfOrder' = (outOfOrder \/ \E v \in 1..(w - 1) : gcdsRes[v] = <<>>)
  /\ UNCHANGED <<keyList, cpuCount, moduli, treeTops, matches, stdout, wState,
                 wModuli, wTree, toWorker, sentLog, replyLog>>
  /\ UNCHANGED <<flattenVars, toolVars>>

\* check, after the second Promise.all: kill the workers, collect the matches
CheckReturn ==
  /\ pc = "awaitGcds"
  /\ AllSettled(gcdsRes, <<>>)
  /\ wState' = [w \in Workers |-> IF wState[w] = "running" THEN "killed" ELSE wState[w]]
  /\ matches' = MatchesOf(Flat(gcdsRes))
  /\ pc' = "print"
  /\ UNCHANGED <<keyList, cpuCount, error, moduli, treeTops, gcdsRes, listening,
                 stdout, wModuli, wTree, toWorker, toDriver, sentLog, replyLog, outOfOrder>>
  /\ UNCHANGED <<flattenVars, toolVars>>

\* main, after check returned: one line per match
MainPrint ==
  /\ pc = "print"
  /\ stdout' = PrintMatches(matches)
  /\ pc' = "done"
  /\ UNCHANGED <<keyList, cpuCount, error, moduli, treeTops, gcdsRes, listening,
                 matches, wState, wModuli, wTree, toWorker, toDriver, sentLog,
                 replyLog, outOfOrder>>
  /\ UNCHANGED <<flattenVars, toolVars>>

\* a mutant of ProductTreeReply: the reply carries another type
ProductTreeReplyMistyped(tree) == [type |-> "tree", top |-> HexLiteral(tree[1][1])]

\* the reply to a product-tree request
ProductTreeReply(tree) == [type |-> "product-tree", top |-> HexLiteral(tree[1][1])]

\* the reply to a remainder-tree request
RemainderTreeReply(gcds) ==
  [type |-> "remainder-tree", gcds |-> [j \in 1..Len(gcds) |-> HexLiteral(gcds[j])]]

\* moduli = msg.moduli.map((v) => BigInt(v))
ParseModuli(strs) == [j \in 1..Len(strs) |-> BigIntOf(strs[j])]

\* process.on('message') of worker w; an exception ends the worker process
WorkerOnMessage(w) ==
  /\ w \in Workers
  /\ wState[w] = "running"
  /\ toWorker[w] # <<>>
  /\ toWorker' = [toWorker EXCEPT ![w] = Tail(@)]
  /\ LET msg == Head(toWorker[w])
     IN  IF msg.type = "product-tree"
         THEN IF ProductTreeThrows(ParseModuli(msg.moduli))
              THEN /\ wState' = [wState EXCEPT ![w] = "crashed"]
                   /\ wModuli' = [wModuli EXCEPT ![w] = ParseModuli(msg.moduli)]
                   /\ UNCHANGED <<wTree, toDriver, replyLog>>
              ELSE LET tree == productTree(ParseModuli(msg.moduli))
                   IN  /\ wModuli' = [wModuli EXCEPT ![w] = ParseModuli(msg.moduli)]
                       /\ wTree' = [wTree EXCEPT ![w] = tree]
                       /\ toDriver' = [toDriver EXCEPT ![w] = Append(@, ProductTreeReply(tree))]
                       /\ replyLog' = [replyLog EXCEPT ![w] = Append(@, ProductTreeReply(tree))]
                       /\ UNCHANGED wState
         ELSE IF msg.type = "remainder-tree"
         THEN IF wTree[w] = <<>>
              THEN /\ wState' = [wState EXCEPT ![w] = "crashed"]
                   /\ UNCHANGED <<wModuli, wTree, toDriver, replyLog>>
              ELSE LET gcds == WorkerGcds(wModuli[w], wTree[w], BigIntOf(msg.head))
                   IN  /\ toDriver' = [toDriver EXCEPT ![w] = Append(@, RemainderTreeReply(gcds))]
                       /\ replyLog' = [replyLog EXCEPT ![w] = Append(@, RemainderTreeReply(gcds))]
                       /\ UNCHANGED <<wState, wModuli, wTree>>
         ELSE /\ wState' = [wState EXCEPT ![w] = "crashed"]
              /\ UNCHANGED <<wModuli, wTree, toDriver, replyLog>>
  /\ UNCHANGED <<keyList, cpuCount, pc, error, moduli, treeTops, gcdsRes, listening,
                 matches, stdout, sentLog, outOfOrder>>
  /\ UNCHANGED <<flattenVars, toolVars>>

\* the environment: worker w dies (killed, out of memory) with a request
\* it has not answered
WorkerCrash(w) ==
  /\ w \in Workers
  /\ wState[w] = "running"
  /\ toWorker[w] # <<>>
  /\ pc \in {"awaitProducts", "awaitGcds"}
  /\ wState' = [wState EXCEPT ![w] = "crashed"]
  /\ UNCHANGED <<keyList, cpuCount, pc, error, moduli, treeTops, gcdsRes, listening,
                 matches, stdout, wModuli, wTree, toWorker, toDriver, sentLog,
                 replyLog, outOfOrder>>
  /\ UNCHANGED <<flattenVars, toolVars>>

NextCheck ==
  \/ MainReadAndPad
  \/ CheckReject
  \/ CheckDistribute
  \/ \E w \in 1..MaxCpu : DriverOnProductTree(w)
  \/ DriverSendHeads
  \/ \E w \in 1..MaxCpu : DriverOnRemainderTree(w)
  \/ CheckReturn
  \/ MainPrint
  \/ \E w \in 1..MaxCpu : WorkerOnMessage(w)
  \/ \E w \in 1..MaxCpu : WorkerCrash(w)

SpecCheck == InitCheck /\ [][NextCheck]_vars

(***************************************************************************)
(* Properties of the parallel check.                                       *)
(***************************************************************************)
RECURSIVE ProductOf(_)
\* the product of the entries of a list
ProductOf(values) == IF values = <<>> THEN 1 ELSE Head(values) * ProductOf(Tail(values))

\* a and b have a common divisor greater than 1
SharesFactor(a, b) == \E d \in 2..a : a % d = 0 /\ b % d = 0

\* the greatest common divisor of positive a and b, by its definition
GreatestCommonDivisor(a, b) ==
  CHOOSE d \in 1..a :
    /\ a % d = 0 /\ b % d = 0
    /\ \A e \in (d + 1)..a : ~(a % e = 0 /\ b % e = 0)

\* index i (0-based) is among the matches check returned
Reported(i) == \E j \in 1..Len(matches) : matches[j].index = i

\* check has returned its matches
CheckReturned == pc \in {"print", "done"}

\* k is a power of two
IsPowerOfTwo(k) == \E e \in 0..k : 2 ^ e = k

\* C1: once the audit has returned, index i is reported if and only if M_i
\* has a common factor greater than 1 with P / M_i, P the product of all moduli.
C1_ReportsExactlySharedFactors ==
  CheckReturned =>
    \A j \in 1..Len(moduli) :
      Reported(j - 1) <=> SharesFactor(moduli[j], ProductOf(moduli) \div moduli[j])

\* C1 witness: a finished audit over several workers that reports one modulus
\* greater than 1 and does not report another
C1_Witness ==
  /\ pc = "done"
  /\ cpuCount >= 2
  /\ \E i, j \in 1..Len(moduli) :
       /\ moduli[i] > 1 /\ moduli[j] > 1
       /\ Reported(i - 1) /\ ~Reported(j - 1)

\* C2: the matches and the output lines of the k-worker check are those of the
\* single-process check on the same moduli.
C2_SplicingInvariance ==
  /\ CheckReturned => matches = checkSingle(moduli)
  /\ pc = "done" => stdout = PrintMatches(checkSingle(moduli))

\* C2 witness: a finished four-worker audit of eight moduli with matches
C2_Witness ==
  /\ pc = "done"
  /\ cpuCount = 4
  /\ Len(moduli) = 8
  /\ matches # <<>>

\* the workers that died
Crashed == { w \in Workers : wState[w] = "crashed" }

\* C3 (as claimed): when a worker has failed before replying, the driver prints
\* no match and, once nothing more can happen, has ended with an error.
C3_WorkerFailureFailsAudit ==
  Crashed # {} => /\ stdout = <<>>
                  /\ ~(ENABLED NextCheck) => pc = "error"

\* the matches of a list of real moduli, from the definition of the gcd alone
RealMatches(real) ==
  MatchesOf([j \in 1..Len(real) |->
               GreatestCommonDivisor(real[j], ProductOf(real) \div real[j])])

\* C4: no pad index is reported, and the reported indices and divisors are a
\* function of the real moduli alone.
C4_PaddingTransparency ==
  CheckReturned =>
    /\ \A j \in 1..Len(matches) : matches[j].index < Len(keyList)
    /\ matches = RealMatches(ReadModuli(keyList))

\* C4 witness: a finished audit of a padded list with matches
C4_Witness ==
  /\ pc = "done"
  /\ Len(keyList) >= 1
  /\ Len(moduli) > Len(keyList)
  /\ matches # <<>>

\* the j-th gcd (1-based) worker w sent in its remainder-tree reply
SentGcd(w, j) == BigIntOf(replyLog[w][2].gcds[j])

\* C5: the matches are in ascending index order, and the j-th gcd sent by
\* worker i is reported, if it is not 1, under index i * s + j and nowhere else.
C5_IndexStableUnderReplyOrder ==
  CheckReturned =>
    LET s == Len(moduli) \div cpuCount
    IN  /\ \A a, b \in 1..Len(matches) : a < b => matches[a].index < matches[b].index
        /\ \A w \in Workers : \A j \in 1..s :
             IF SentGcd(w, j) # 1
             THEN \E m \in 1..Len(matches) :
                    matches[m] = [index |-> (w - 1) * s + (j - 1), divisor |-> SentGcd(w, j)]
             ELSE ~Reported((w - 1) * s + (j - 1))
        /\ \A m \in 1..Len(matches) : matches[m].index \in 0..(Len(moduli) - 1)

\* C5 witness: a finished audit in which a reply overtook that of a lower
\* worker, and the workers' gcds differ
C5_Witness ==
  /\ pc = "done"
  /\ outOfOrder
  /\ gcdsRes[1] # gcdsRes[2]
  /\ matches # <<>>

\* the driver refused the worker count
Rejected == pc = "error" /\ error = "Need power of two processors"

\* C6: the driver rejects, with no worker spawned and nothing sent, exactly
\* when k is no power of two, exceeds n or does not divide n; otherwise there
\* are k workers, each sent n / k moduli.
C6_RejectsBadWorkerCount ==
  pc \notin {"main", "check"} =>
    LET n == Len(moduli)
        k == cpuCount
    IN  /\ Rejected <=> (~IsPowerOfTwo(k) \/ k > n \/ ~(\E q \in 1..n : q * k = n))
        /\ Rejected => wState = <<>> /\ sentLog = <<>> /\ toWorker = <<>>
        /\ ~Rejected =>
             /\ Len(wState) = k
             /\ \A w \in 1..k :
                  /\ sentLog[w][1].type = "product-tree"
                  /\ Len(sentLog[w][1].moduli) * k = n

\* C6 witness: a power-of-two worker count larger than the padded list
C6_Witness ==
  /\ Rejected
  /\ cpuCount = 4
  /\ Len(moduli) = 2

\* the driver has sent a remainder-tree request to worker w
HeadSent(w) == \E m \in 1..Len(sentLog[w]) : sentLog[w][m].type = "remainder-tree"

\* the root worker w reported in its product-tree reply
SentTop(w) == BigIntOf(replyLog[w][1].top)

\* C7: a remainder-tree request has been sent only if every worker's
\* product-tree reply has been delivered, and the head sent to worker i is the
\* product of all k roots reduced modulo the square of root i (the product
\* itself when k = 1).
C7_TwoPhaseBarrier ==
  \A w \in Workers :
    HeadSent(w) =>
      /\ \A v \in Workers :
           /\ Len(replyLog[v]) >= 1
           /\ treeTops[v] = SentTop(v)
      /\ LET P == ProductOf([v \in Workers |-> SentTop(v)])
         IN  BigIntOf(sentLog[w][2].head) =
               IF Len(wState) = 1 THEN P ELSE P % (SentTop(w) * SentTop(w))

\* C7 witness: heads were sent to four workers whose roots are not all 1
C7_Witness ==
  /\ pc = "awaitGcds"
  /\ Len(wState) = 4
  /\ \A w \in Workers : HeadSent(w)
  /\ \E w \in Workers : treeTops[w] > 1

\* the S6 run: moduli 15, 21, 77, 143 on one or two workers, finished
ScenarioS6Done ==
  /\ keyList = HexLines(<<15, 21, 77, 143>>)
  /\ cpuCount \in {1, 2}
  /\ pc = "done"

\* C8 (as claimed): the S6 run writes the lines 0,3 1,3 2,11 3,11.
C8_ScenarioS6AsClaimed ==
  ScenarioS6Done =>
    stdout = << <<"0", ",", "3">>, <<"1", ",", "3">>,
                <<"2", ",", "1", "1">>, <<"3", ",", "1", "1">> >>

\* C8 (amended): the S6 run, on one worker as on two, writes the lines
\* 0,3 1,15 2,4d 3,b: the divisors 3, 21, 77 and 11 in hexadecimal.
C8_ScenarioS6 ==
  ScenarioS6Done =>
    stdout = << <<"0", ",", "3">>, <<"1", ",", "1", "5">>,
                <<"2", ",", "4", "d">>, <<"3", ",", "b">> >>

\* C8 witness: the S6 run on two workers has finished
C8_Witness == ScenarioS6Done /\ cpuCount = 2 /\ Len(stdout) = 4

(***************************************************************************)
(* The extract tool (bin/flatten.ts): parseSSHRSAKey and the Bloom-filter  *)
(* deduplication.  A key line is a record: alg is the text before the      *)
(* first blank, payload the bytes the base64 token decodes to, comment the *)
(* rest of the line.                                                       *)
(***************************************************************************)
\* the bytes of the string ssh-rsa
SshRsaName == <<115, 115, 104, 45, 114, 115, 97>>

\* a 4-byte big-endian length
UInt32BE(n) == <<(n \div 16777216) % 256, (n \div 65536) % 256, (n \div 256) % 256, n % 256>>

\* one length-prefixed string of the SSH wire format
Frame(part) == UInt32BE(Len(part)) \o part

\* an ssh-rsa key line with public exponent bytes e and modulus bytes n
RsaLine(e, n, comment) ==
  [alg |-> "ssh-rsa", payload |-> Frame(SshRsaName) \o Frame(e) \o Frame(n),
   comment |-> comment]

\* raw.readUInt32BE(0)
readUInt32BE(raw) == raw[1] * 16777216 + raw[2] * 65536 + raw[3] * 256 + raw[4]

\* raw.readUInt32BE(0) raises a RangeError on a buffer of fewer than 4 bytes
ReadRaises(raw) == Len(raw) < 4

\* a mutant of TooShortForLength: the length field is read unguarded
NeverTooShort(raw) == FALSE

\* if (raw.length < 4)
TooShortForLength(raw) == Len(raw) < 4

RECURSIVE SplitParts(_, _)
\* the while loop of parseSSHRSAKey: ok is FALSE where the code returns false,
\* threw is TRUE where a call it makes raises
SplitParts(raw, parts) ==
  IF Len(raw) = 0 THEN [ok |-> TRUE, threw |-> FALSE, parts |-> parts]
  ELSE IF TooShortForLength(raw) THEN [ok |-> FALSE, threw |-> FALSE, parts |-> parts]
  ELSE IF ReadRaises(raw) THEN [ok |-> FALSE, threw |-> TRUE, parts |-> parts]
  ELSE IF Len(raw) < 4 + readUInt32BE(raw)
  THEN [ok |-> FALSE, threw |-> FALSE, parts |-> parts]
  ELSE SplitParts(SubSeq(raw, 4 + readUInt32BE(raw) + 1, Len(raw)),
                  Append(parts, SubSeq(raw, 5, 4 + readUInt32BE(raw))))

\* buffer.toString('hex'): two digits per byte
RECURSIVE BytesToHex(_)
BytesToHex(bytes) ==
  IF bytes = <<>> THEN <<>>
  ELSE <<HexChars[(Head(bytes) \div 16) + 1], HexChars[(Head(bytes) % 16) + 1]>>
       \o BytesToHex(Tail(bytes))

\* the result `false` of parseSSHRSAKey
NoModulus == [ok |-> FALSE, threw |-> FALSE, hex |-> <<>>, e |-> <<>>]

\* parseSSHRSAKey left by an exception
Raised == [ok |-> FALSE, threw |-> TRUE, hex |-> <<>>, e |-> <<>>]

\* a mutant of StripLeadingZero: the first byte is dropped whatever it is
StripFirstByte(rawKey) == IF Len(rawKey) > 0 THEN Tail(rawKey) ELSE rawKey

\* if (rawKey[0] === 0) rawKey = rawKey.slice(1)
StripLeadingZero(rawKey) ==
  IF Len(rawKey) > 0 /\ rawKey[1] = 0 THEN Tail(rawKey) ELSE rawKey

\* parseSSHRSAKey(key): ok and the hex string returned, or NoModulus for false;
\* e is parts[1], the exponent part the loop has split off
parseSSHRSAKey(key) ==
  IF key.alg # "ssh-rsa" THEN NoModulus
  ELSE LET split == SplitParts(key.payload, <<>>)
       IN  IF split.threw THEN Raised
           ELSE IF ~split.ok THEN NoModulus
           ELSE IF Len(split.parts) # 3 THEN NoModulus
           ELSE LET rawKey == split.parts[3]
                IN  [ok |-> TRUE, threw |-> FALSE, e |-> split.parts[2],
                     hex |-> BytesToHex(StripLeadingZero(rawKey))]

\* if (!mod): false and the empty string are both skipped
Falsy(mod) == ~mod.ok \/ mod.hex = <<>>

\* Buffer.from(mod, 'hex')
HexToBytes(hex) ==
  [j \in 1..(Len(hex) \div 2) |-> 16 * HexValue(hex[2 * j - 1]) + HexValue(hex[2 * j])]

\* size.writeUInt32LE(n)
UInt32LE(n) == <<n % 256, (n \div 256) % 256, (n \div 65536) % 256, (n \div 16777216) % 256>>

\* the bytes the packed-binary version writes for one modulus
PackedChunk(hex) == UInt32LE(Len(HexToBytes(hex))) \o HexToBytes(hex)

\* seen.test(key): every bit position of the key is set
BloomTest(bits, key) == locations[key] \subseteq bits

\* seen.add(key): set every bit position of the key
BloomAdd(bits, key) == bits \cup locations[key]

\* a mutant of FilterAtFileStart: a new filter for every journal file
FilterFreshPerFile(bits) == {}

\* the filter is created once, before the loop over the files
FilterAtFileStart(bits) == bits

\* the state the deduplication loop works on
DedupState == [seen |-> seen, out |-> out, yielded |-> yielded, added |-> added,
               falsePositive |-> falsePositive]

\* packed-binary version, one key of a record
PackedKeyStep(st, key) ==
  LET mod == parseSSHRSAKey(key)
  IN  IF Falsy(mod) THEN st
      ELSE IF BloomTest(st.seen, key)
      THEN [st EXCEPT !.yielded = Append(@, mod.hex),
                      !.falsePositive = @ \/ key \notin st.added]
      ELSE [seen |-> BloomAdd(st.seen, key),
            out |-> st.out \o PackedChunk(mod.hex),
            yielded |-> Append(st.yielded, mod.hex),
            added |-> st.added \cup {key},
            falsePositive |-> st.falsePositive]

RECURSIVE PackedKeys(_, _)
\* packed-binary version: for (const key of keys)
PackedKeys(st, keys) ==
  IF keys = <<>> THEN st ELSE PackedKeys(PackedKeyStep(st, Head(keys)), Tail(keys))

\* hex version, main's loop body for one modulus that readKeys yielded
HexDedup(st, key) ==
  IF BloomTest(st.seen, key)
  THEN [st EXCEPT !.falsePositive = @ \/ key \notin st.added]
  ELSE [st EXCEPT !.seen = BloomAdd(st.seen, key),
                  !.out = Append(st.out, key),
                  !.added = st.added \cup {key}]

\* hex version, one key of a record: readKeys yields the modulus to main
HexKeyStep(st, key) ==
  IF Falsy(parseSSHRSAKey(key)) THEN st
  ELSE HexDedup([st EXCEPT !.yielded = Append(@, parseSSHRSAKey(key).hex)],
                parseSSHRSAKey(key).hex)

RECURSIVE HexKeys(_, _)
\* hex version: for (const key of pair.keys)
HexKeys(st, keys) ==
  IF keys = <<>> THEN st ELSE HexKeys(HexKeyStep(st, Head(keys)), Tail(keys))

\* the key lines of the model: two lines and a third with another exponent
\* carrying modulus 0xc1 (sign-padded), lines with moduli 0x65 and 0x07, an
\* ed25519 line, and an ssh-rsa line whose payload is cut short
LineA1 == RsaLine(<<1, 0, 1>>, <<0, 193>>, "alice")
LineA2 == RsaLine(<<1, 0, 1>>, <<0, 193>>, "bob")
LineA3 == RsaLine(<<3>>, <<0, 193>>, "alice")
LineB == RsaLine(<<1, 0, 1>>, <<101>>, "carol")
LineC == RsaLine(<<1, 0, 1>>, <<7>>, "dave")
LineEd == [alg |-> "ssh-ed25519", payload |-> <<0, 0, 0, 1, 9>>, comment |-> "erin"]
LineCut == [alg |-> "ssh-rsa", payload |-> Frame(SshRsaName) \o <<0, 0, 0, 3, 1>>,
            comment |-> "frank"]

KeyLines == {LineA1, LineA2, LineA3, LineB, LineC, LineEd, LineCut}

\* the keys arrays of the journal records of the model
RecordKeys ==
  { <<>>, <<LineA1>>, <<LineA2>>, <<LineA3>>, <<LineB>>, <<LineC>>, <<LineCut>>,
    <<LineEd, LineA1>>, <<LineA1, LineB>>, <<LineB, LineC>> }

\* the key lines parseSSHRSAKey accepts
RsaKeyLines == { k \in KeyLines : ~Falsy(parseSSHRSAKey(k)) }

\* the moduli parseSSHRSAKey returns
ModulusStrings == { parseSSHRSAKey(k).hex : k \in RsaKeyLines }

\* the bit positions a filter's hash functions can give a key
LocationSets == (SUBSET (0..(BloomBits - 1))) \ {{}}

\* the audit is not running
CheckIdle ==
  /\ keyList = <<>>
  /\ cpuCount = 1
  /\ pc = "idle"
  /\ error = ""
  /\ moduli = <<>>
  /\ treeTops = <<>>
  /\ gcdsRes = <<>>
  /\ listening = <<>>
  /\ matches = <<>>
  /\ stdout = <<>>
  /\ wState = <<>>
  /\ wModuli = <<>>
  /\ wTree = <<>>
  /\ toWorker = <<>>
  /\ toDriver = <<>>
  /\ sentLog = <<>>
  /\ replyLog = <<>>
  /\ outOfOrder = FALSE

\* the extract tool before its first record, for any hash functions over keys
FlattenStart(version, keys) ==
  /\ CheckIdle
  /\ ToolsIdle
  /\ fpc = version
  /\ locations \in [keys -> LocationSets]
  /\ seen = {}
  /\ out = <<>>
  /\ filesOpened = 0
  /\ recordsRead = 0
  /\ yielded = <<>>
  /\ added = {}
  /\ falsePositive = FALSE
  /\ firstOut = <<>>
  /\ rerunInput = <<>>

\* the deduplication loop moved from DedupState to st
DedupUpdate(st) ==
  /\ seen' = st.seen
  /\ out' = st.out
  /\ yielded' = st.yielded
  /\ added' = st.added
  /\ falsePositive' = st.falsePositive

(***************************************************************************)
(* Packed-binary version: the filter is keyed by the key line.             *)
(***************************************************************************)
InitFlattenPacked == FlattenStart("packed", RsaKeyLines)

\* one record of getPairIterator: all its keys are handled
PackedReadRecord(keys) ==
  /\ fpc = "packed"
  /\ recordsRead < MaxRecords
  /\ recordsRead' = recordsRead + 1
  /\ DedupUpdate(PackedKeys(DedupState, keys))
  /\ UNCHANGED <<fpc, locations, filesOpened, firstOut, rerunInput>>
  /\ UNCHANGED <<checkVars, toolVars>>

\* the iterators are exhausted: stream.end()
PackedEnd ==
  /\ fpc = "packed"
  /\ fpc' = "done"
  /\ UNCHANGED <<locations, seen, out, filesOpened, recordsRead, yielded, added,
                 falsePositive, firstOut, rerunInput>>
  /\ UNCHANGED <<checkVars, toolVars>>

NextFlattenPacked ==
  \/ \E keys \in RecordKeys : PackedReadRecord(keys)
  \/ PackedEnd

SpecFlattenPacked == InitFlattenPacked /\ [][NextFlattenPacked]_vars

(***************************************************************************)
(* Hex version: the filter is keyed by the modulus.  After the run, its    *)
(* output is run through a new filter with the same hash functions.        *)
(***************************************************************************)
InitFlattenHex == FlattenStart("hex", ModulusStrings)

\* the loop over the files moves to the next journal file
HexOpenFile ==
  /\ fpc = "hex"
  /\ filesOpened < MaxFiles
  /\ filesOpened' = filesOpened + 1
  /\ seen' = FilterAtFileStart(seen)
  /\ UNCHANGED <<fpc, locations, out, recordsRead, yielded, added, falsePositive,
                 firstOut, rerunInput>>
  /\ UNCHANGED <<checkVars, toolVars>>

\* one record of the open file: readKeys yields its moduli, main handles each
HexReadRecord(keys) ==
  /\ fpc = "hex"
  /\ filesOpened >= 1
  /\ recordsRead < MaxRecords
  /\ recordsRead' = recordsRead + 1
  /\ DedupUpdate(HexKeys(DedupState, keys))
  /\ UNCHANGED <<fpc, locations, filesOpened, firstOut, rerunInput>>
  /\ UNCHANGED <<checkVars, toolVars>>

\* the files are exhausted: out.end()
HexEnd ==
  /\ fpc = "hex"
  /\ fpc' = "done"
  /\ UNCHANGED <<locations, seen, out, filesOpened, recordsRead, yielded, added,
                 falsePositive, firstOut, rerunInput>>
  /\ UNCHANGED <<checkVars, toolVars>>

\* the output becomes the input of a new deduplicator: new BloomFilter
RerunStart ==
  /\ fpc = "done"
  /\ fpc' = "rerun"
  /\ firstOut' = out
  /\ rerunInput' = out
  /\ seen' = {}
  /\ added' = {}
  /\ out' = <<>>
  /\ UNCHANGED <<locations, filesOpened, recordsRead, yielded, falsePositive>>
  /\ UNCHANGED <<checkVars, toolVars>>

\* the second deduplicator handles its next modulus
RerunKey ==
  /\ fpc = "rerun"
  /\ rerunInput # <<>>
  /\ rerunInput' = Tail(rerunInput)
  /\ DedupUpdate(HexDedup(DedupState, Head(rerunInput)))
  /\ UNCHANGED <<fpc, locations, filesOpened, recordsRead, firstOut>>
  /\ UNCHANGED <<checkVars, toolVars>>

\* the second deduplicator reaches the end of its input
RerunEnd ==
  /\ fpc = "rerun"
  /\ rerunInput = <<>>
  /\ fpc' = "redone"
  /\ UNCHANGED <<locations, seen, out, filesOpened, recordsRead, yielded, added,
                 falsePositive, firstOut, rerunInput>>
  /\ UNCHANGED <<checkVars, toolVars>>

NextFlattenHex ==
  \/ HexOpenFile
  \/ \E keys \in RecordKeys : HexReadRecord(keys)
  \/ HexEnd
  \/ RerunStart
  \/ RerunKey
  \/ RerunEnd

SpecFlattenHex == InitFlattenHex /\ [][NextFlattenHex]_vars

(***************************************************************************)
(* Properties of the deduplication.                                        *)
(***************************************************************************)
RECURSIVE FirstOccurrences(_, _)
\* the entries of a list, each kept where it first occurs
FirstOccurrences(list, before) ==
  IF list = <<>> THEN <<>>
  ELSE IF Head(list) \in before THEN FirstOccurrences(Tail(list), before)
  ELSE <<Head(list)>> \o FirstOccurrences(Tail(list), before \cup {Head(list)})

RECURSIVE PackedList(_)
\* the packed-binary form of a list of moduli
PackedList(mods) ==
  IF mods = <<>> THEN <<>> ELSE PackedChunk(Head(mods)) \o PackedList(Tail(mods))

\* C9 (as claimed): when the filter gave no false positive, the output holds
\* each distinct modulus once, in order of first appearance.
C9_DedupEmitsDistinctModuliOnce ==
  (fpc = "done" /\ ~falsePositive) =>
    out = PackedList(FirstOccurrences(yielded, {}))

\* The statement of C9 for the hex version, whose filter is keyed by the
\* modulus: it holds there.
HexDedupEmitsDistinctModuliOnce ==
  (fpc = "done" /\ ~falsePositive) => out = FirstOccurrences(yielded, {})

\* C10: the deduplicator's output, run through a new deduplicator with the
\* same hash functions, comes out unchanged.
C10_DedupIdempotent == fpc = "redone" => out = firstOut

\* C10 witness: a first run over two files in which the filter gave a false
\* positive, and whose output of two moduli has been run through again
C10_Witness ==
  /\ fpc = "redone"
  /\ falsePositive
  /\ filesOpened = 2
  /\ Len(firstOut) >= 2

(***************************************************************************)
(* readKeys over the keys of one journal record (bin/flatten.ts), with     *)
(* key lines of every framing: up to MaxParts length-prefixed parts, cut   *)
(* short by up to MaxCut bytes.                                            *)
(***************************************************************************)
MaxParts == 4
MaxCut == 5

\* the bytes of the string ssh-dss
SshDssName == <<115, 115, 104, 45, 100, 115, 115>>

\* third parts: sign-padded, unpadded, doubly padded, zero and empty
ModulusParts ==
  { <<0, 193>>, <<193>>, <<0, 0, 193>>, <<0, 101>>, <<101>>, <<0>>, <<>> }

\* the parts a payload is framed from: a name, an exponent, a modulus and
\* further one-byte parts
PartLists ==
  { [j \in 1..k |-> IF j = 1 THEN name ELSE IF j = 2 THEN e
                    ELSE IF j = 3 THEN n ELSE <<9>>] :
      k \in 0..MaxParts, name \in {SshRsaName, SshDssName},
      e \in {<<3>>, <<1, 0, 1>>}, n \in ModulusParts }

RECURSIVE Frames(_)
\* the parts, each length-prefixed, one after the other
Frames(parts) ==
  IF parts = <<>> THEN <<>> ELSE Frame(Head(parts)) \o Frames(Tail(parts))

\* the payloads of the model: framed parts with up to MaxCut bytes missing
Payloads ==
  { SubSeq(Frames(parts), 1, Len(Frames(parts)) - cut) :
      parts \in PartLists, cut \in 0..MaxCut }

\* the key lines readKeys is given
ParserLines ==
  { [alg |-> alg, payload |-> payload, comment |-> "alice"] :
      alg \in {"ssh-rsa", "ssh-ed25519"}, payload \in Payloads }

InitReadKeys ==
  /\ CheckIdle
  /\ FlattenIdle
  /\ OnlyRunning("readKeys")
  /\ rkStatus = "reading"
  /\ rkKeys \in { <<a, LineB>> : a \in ParserLines } \cup { <<LineC, a>> : a \in ParserLines }
  /\ rkPos = 0
  /\ rkYield = <<>>
  /\ rkLog = <<>>

\* one turn of for (const key of pair.keys): an exception leaves the loop
ReadKeysStep ==
  /\ rkStatus = "reading"
  /\ rkPos < Len(rkKeys)
  /\ LET mod == parseSSHRSAKey(rkKeys[rkPos + 1])
     IN  /\ rkLog' = Append(rkLog, mod)
         /\ IF mod.threw
            THEN /\ rkStatus' = "threw"
                 /\ UNCHANGED <<rkPos, rkYield>>
            ELSE /\ rkPos' = rkPos + 1
                 /\ rkYield' = IF Falsy(mod) THEN rkYield ELSE Append(rkYield, mod.hex)
                 /\ UNCHANGED rkStatus
  /\ UNCHANGED rkKeys
  /\ UNCHANGED notReadKeys

\* the keys of the record are exhausted
ReadKeysEnd ==
  /\ rkStatus = "reading"
  /\ rkPos = Len(rkKeys)
  /\ rkStatus' = "end"
  /\ UNCHANGED <<rkKeys, rkPos, rkYield, rkLog>>
  /\ UNCHANGED notReadKeys

NextReadKeys == ReadKeysStep \/ ReadKeysEnd

SpecReadKeys == InitReadKeys /\ [][NextReadKeys]_vars

(***************************************************************************)
(* Properties of parseSSHRSAKey and readKeys.                              *)
(***************************************************************************)
\* the 4-byte big-endian number at offset off of a payload
LengthAt(p, off) ==
  p[off + 1] * 16777216 + p[off + 2] * 65536 + p[off + 3] * 256 + p[off + 4]

\* the payload is three complete length-prefixed parts and nothing else
ThreeCompleteParts(p) ==
  /\ Len(p) >= 4
  /\ Len(p) >= 8 + LengthAt(p, 0)
  /\ Len(p) >= 12 + LengthAt(p, 0) + LengthAt(p, 4 + LengthAt(p, 0))
  /\ Len(p) = 12 + LengthAt(p, 0) + LengthAt(p, 4 + LengthAt(p, 0))
              + LengthAt(p, 8 + LengthAt(p, 0) + LengthAt(p, 4 + LengthAt(p, 0)))

\* the keys readKeys has handled
Handled == 1..Len(rkLog)

\* C11: parseSSHRSAKey never raises; it returns a modulus exactly for the
\* ssh-rsa lines whose payload is three complete parts and false for every
\* other line; readKeys goes on to the next key after a skipped one, so that
\* at its end every key was handled and every non-empty modulus yielded.
C11_ParserNeverRaises ==
  /\ rkStatus # "threw"
  /\ \A j \in Handled :
       /\ ~rkLog[j].threw
       /\ rkLog[j].ok <=>
            (rkKeys[j].alg = "ssh-rsa" /\ ThreeCompleteParts(rkKeys[j].payload))
  /\ rkPos = Len(rkLog)
  /\ rkStatus = "end" => rkPos = Len(rkKeys)
  /\ Len(rkYield) = Cardinality({ j \in Handled : rkLog[j].ok /\ rkLog[j].hex # <<>> })

\* C11 witness: the first key is an ssh-rsa line cut inside its second length
\* field; it was skipped and the modulus of the key after it was yielded
C11_Witness ==
  /\ rkStatus = "end"
  /\ rkKeys[1].alg = "ssh-rsa"
  /\ Len(rkKeys[1].payload) = 13
  /\ ~rkLog[1].ok
  /\ rkYield = << <<"6", "5">> >>

\* C12 (as claimed): every modulus parseSSHRSAKey returns is canonical: it
\* does not begin with a zero byte.
C12_ModulusIsCanonical ==
  \A j \in Handled :
    (rkLog[j].ok /\ rkLog[j].hex # <<>>) =>
      ~(rkLog[j].hex[1] = "0" /\ rkLog[j].hex[2] = "0")

\* the signed-magnitude form of a canonical modulus
SignPadded(n) == IF Len(n) > 0 /\ n[1] >= 128 THEN <<0>> \o n ELSE n

\* the payload re-encoded from the exponent and the modulus returned
Reencoded(mod) ==
  Frames(<<SshRsaName, mod.e, SignPadded(HexToBytes(mod.hex))>>)

\* C13 (as claimed): for every accepted key line the re-encoding of
\* ssh-rsa, e and the sign-padded modulus is the payload that was parsed.
C13_RoundTripAsClaimed ==
  \A j \in Handled : rkLog[j].ok => Reencoded(rkLog[j]) = rkKeys[j].payload

\* the third part of a payload of three complete parts
ThirdPart(p) ==
  SubSeq(p, 13 + LengthAt(p, 0) + LengthAt(p, 4 + LengthAt(p, 0)), Len(p))

\* a modulus part in minimal signed-magnitude form
MinimalSigned(n) ==
  \/ n = <<>>
  \/ n[1] \in 1..127
  \/ Len(n) >= 2 /\ n[1] = 0 /\ n[2] >= 128

\* the payload's first part is the string ssh-rsa
NamedSshRsa(p) == SubSeq(p, 5, 4 + LengthAt(p, 0)) = SshRsaName

\* C13 (amended): the round trip holds for the accepted key lines whose
\* first part is ssh-rsa and whose modulus part is in minimal
\* signed-magnitude form; the parser accepts other payloads as well.
C13_RoundTrip ==
  \A j \in Handled :
    (/\ rkLog[j].ok
     /\ NamedSshRsa(rkKeys[j].payload)
     /\ MinimalSigned(ThirdPart(rkKeys[j].payload)))
      => Reencoded(rkLog[j]) = rkKeys[j].payload

\* C13 witness: a sign-padded modulus c1 was returned from a well-formed line
C13_Witness ==
  /\ rkLog # <<>>
  /\ rkLog[1].ok
  /\ rkLog[1].hex = <<"c", "1">>
  /\ NamedSshRsa(rkKeys[1].payload)
  /\ ThirdPart(rkKeys[1].payload) = <<0, 193>>

(***************************************************************************)
(* splitParse (src/common.ts).  The stream delivers Buffers; a string is a *)
(* sequence of code points.  Every slice appended to the string buffer is  *)
(* decoded as UTF-8 on its own.                                            *)
(***************************************************************************)
MaxStream == 4

\* the bytes of the model: LF, the letter a, and the two bytes of U+00E9
StreamBytes == {10, 97, 195, 169}

RECURSIVE Utf8Decode(_)
\* Buffer.prototype.toString(): one- and two-byte sequences; a lead byte
\* without its continuation byte, and a continuation byte without a lead
\* byte, become U+FFFD
Utf8Decode(bytes) ==
  IF bytes = <<>> THEN <<>>
  ELSE IF Head(bytes) < 128 THEN <<Head(bytes)>> \o Utf8Decode(Tail(bytes))
  ELSE IF /\ Head(bytes) \in 194..223
          /\ Len(bytes) >= 2
          /\ bytes[2] \in 128..191
  THEN <<(Head(bytes) - 192) * 64 + (bytes[2] - 128)>>
       \o Utf8Decode(SubSeq(bytes, 3, Len(bytes)))
  ELSE <<65533>> \o Utf8Decode(Tail(bytes))

\* buffer += data.slice(start, i)
AppendSlice(buffer, slice) == buffer \o Utf8Decode(slice)

RECURSIVE SplitChunk(_, _, _, _, _)
\* the body of for await (const data of stream), from index i (0-based) on
SplitChunk(data, i, start, buffer, yields) ==
  IF i >= Len(data)
  THEN [buffer |-> IF start < Len(data)
                   THEN AppendSlice(buffer, SubSeq(data, start + 1, Len(data)))
                   ELSE buffer,
        yields |-> yields]
  ELSE IF data[i + 1] = 10
  THEN LET line == AppendSlice(buffer, SubSeq(data, start + 1, i))
       IN  SplitChunk(data, i + 1, i + 1, <<>>,
                      IF line # <<>> THEN Append(yields, line) ELSE yields)
  ELSE SplitChunk(data, i + 1, start, buffer, yields)

\* the byte streams of the model
Streams == UNION { [1..n -> StreamBytes] : n \in 0..MaxStream }

InitSplitParse ==
  /\ CheckIdle
  /\ FlattenIdle
  /\ OnlyRunning("splitParse")
  /\ spStatus = "reading"
  /\ spStream \in Streams
  /\ spRest = spStream
  /\ spBuffer = <<>>
  /\ spYield = <<>>

\* the stream delivers its next n bytes as one chunk
SplitParseData(n) ==
  /\ spStatus = "reading"
  /\ n <= Len(spRest)
  /\ LET r == SplitChunk(SubSeq(spRest, 1, n), 0, 0, spBuffer, spYield)
     IN  /\ spBuffer' = r.buffer
         /\ spYield' = r.yields
  /\ spRest' = SubSeq(spRest, n + 1, Len(spRest))
  /\ UNCHANGED <<spStatus, spStream>>
  /\ UNCHANGED notSplitParse

\* the stream has ended: a non-empty buffer is yielded
SplitParseEnd ==
  /\ spStatus = "reading"
  /\ spRest = <<>>
  /\ spStatus' = "end"
  /\ spYield' = IF spBuffer # <<>> THEN Append(spYield, spBuffer) ELSE spYield
  /\ UNCHANGED <<spStream, spRest, spBuffer>>
  /\ UNCHANGED notSplitParse

NextSplitParse ==
  \/ \E n \in 1..MaxStream : SplitParseData(n)
  \/ SplitParseEnd

SpecSplitParse == InitSplitParse /\ [][NextSplitParse]_vars

RECURSIVE Segments(_, _)
\* the non-empty maximal LF-free segments of a byte sequence, in order;
\* current is the segment being collected
Segments(bytes, current) ==
  IF bytes = <<>> THEN (IF current # <<>> THEN <<current>> ELSE <<>>)
  ELSE IF Head(bytes) = 10
  THEN (IF current # <<>> THEN <<current>> ELSE <<>>) \o Segments(Tail(bytes), <<>>)
  ELSE Segments(Tail(bytes), Append(current, Head(bytes)))

\* the records of a stream: the text of each of its segments
RecordsOf(stream) ==
  [j \in 1..Len(Segments(stream, <<>>)) |-> Utf8Decode(Segments(stream, <<>>)[j])]

\* C14 (as claimed): at the end of the stream splitParse has yielded one
\* record per non-empty LF-free segment of the stream, in stream order,
\* however the stream was divided into chunks.
C14_SplitParseChunkInvariant ==
  spStatus = "end" => spYield = RecordsOf(spStream)

\* The statement of C14 for the streams without multi-byte characters: it
\* holds there.
SplitParseAsciiChunkInvariant ==
  (spStatus = "end" /\ \A j \in 1..Len(spStream) : spStream[j] < 128)
    => spYield = RecordsOf(spStream)

(***************************************************************************)
(* Journal discovery and ingestion: getKeysFiles, getKeysStreams           *)
(* (src/common.ts) and getPairIterator.  A file name is a sequence of      *)
(* characters.                                                             *)
(***************************************************************************)
MaxListing == 3
MaxPerChunk == 1

\* the characters of the file names, in the order of their code units
CharOrder ==
  <<"-", ".", "0", "1", "2", "3", "4", "5", "6", "7", "8", "9",
    "a", "b", "e", "g", "j", "k", "n", "o", "s", "t", "x", "y", "z">>

\* the place of a character in the order of the code units
CharRank(c) == CHOOSE r \in 1..Len(CharOrder) : CharOrder[r] = c

Digits == {"0", "1", "2", "3", "4", "5", "6", "7", "8", "9"}

\* the text `keys-`
KeysPrefix == <<"k", "e", "y", "s", "-">>

\* the text `.json`
JsonPostfix == <<".", "j", "s", "o", "n">>

\* the text `.xz`
XzPostfix == <<".", "x", "z">>

\* a starts with the text t
StartsWith(a, t) == Len(a) >= Len(t) /\ SubSeq(a, 1, Len(t)) = t

\* the characters of a after its first n
Drop(a, n) == SubSeq(a, n + 1, Len(a))

RECURSIVE DigitRun(_)
\* \d+ is greedy: the number of leading digits of a
DigitRun(a) ==
  IF a # <<>> /\ Head(a) \in Digits THEN 1 + DigitRun(Tail(a)) ELSE 0

\* KEYS_FILE_RE.test(file) for /^keys-(\d+)\.json(\.xz)$/
KeysFileReTest(file) ==
  /\ StartsWith(file, KeysPrefix)
  /\ DigitRun(Drop(file, 5)) >= 1
  /\ Drop(file, 5 + DigitRun(Drop(file, 5))) = JsonPostfix \o XzPostfix

\* match[1] of KEYS_FILE_RE: the digits of the chunk id
KeysFileReGroup(file) == SubSeq(file, 6, 5 + DigitRun(Drop(file, 5)))

\* getKeysFileChunk(file): parseInt(match[1], 10)
getKeysFileChunk(file) ==
  LET digits == KeysFileReGroup(file)
      RECURSIVE Value(_)
      Value(n) == IF n = 0 THEN 0 ELSE 10 * Value(n - 1) + (CharRank(digits[n]) - 3)
  IN  Value(Len(digits))

RECURSIVE StringLess(_, _)
\* a < b as Array.prototype.sort compares strings: by code units
StringLess(a, b) ==
  IF b = <<>> THEN FALSE
  ELSE IF a = <<>> THEN TRUE
  ELSE IF Head(a) # Head(b) THEN CharRank(Head(a)) < CharRank(Head(b))
  ELSE StringLess(Tail(a), Tail(b))

RECURSIVE Filter(_)
\* files.filter((file) => KEYS_FILE_RE.test(file))
Filter(files) ==
  IF files = <<>> THEN <<>>
  ELSE (IF KeysFileReTest(Head(files)) THEN <<Head(files)>> ELSE <<>>)
       \o Filter(Tail(files))

\* Array.prototype.sort() of distinct strings
SortStrings(files) ==
  [j \in 1..Len(files) |->
     CHOOSE f \in { files[i] : i \in 1..Len(files) } :
       Cardinality({ i \in 1..Len(files) : StringLess(files[i], f) }) = j - 1]

\* getKeysFiles(dir) for a directory whose readdir gives listing
getKeysFiles(listing) == SortStrings(Filter(listing))

\* a file name keys-<digits><postfix>
KeysName(digits, postfix) == KeysPrefix \o digits \o postfix

\* the names a directory of the model can hold
FileNames ==
  { KeysName(d, x) :
      d \in { <<"0", "0", "0", "1">>, <<"0", "0", "0", "2">>, <<"9">>, <<"1", "0">> },
      x \in { JsonPostfix, JsonPostfix \o XzPostfix } }
  \cup { KeysName(<<>>, JsonPostfix \o XzPostfix),
         KeysName(<<"0", "0", "a", "1">>, JsonPostfix \o XzPostfix),
         KeysName(<<"0", "0", "0", "1">>, <<".", "t", "x", "t">>),
         KeysName(<<"0", "0", "0", "1">>, JsonPostfix \o <<".", "g", "z">>),
         KeysName(<<"0", "0", "0", "1">>, JsonPostfix \o XzPostfix \o <<".", "b", "a", "k">>),
         <<"x">> \o KeysName(<<"0", "0", "0", "1">>, JsonPostfix \o XzPostfix),
         <<"s", "t", "a", "t", "e">> \o JsonPostfix }

\* readdir: up to MaxListing distinct names in any order
Listings ==
  { l \in UNION { [1..n -> FileNames] : n \in 0..MaxListing } :
      \A i, j \in 1..Len(l) : i # j => l[i] # l[j] }

InitPairIterator ==
  /\ CheckIdle
  /\ FlattenIdle
  /\ OnlyRunning("getPairIterator")
  /\ giStatus = "start"
  /\ giListing \in Listings
  /\ giFiles = <<>>
  /\ giIndex = 0
  /\ giOpened = <<>>
  /\ giEvents = <<>>

\* const files = await getKeysStreams(dir)
PairIteratorDiscover ==
  /\ giStatus = "start"
  /\ giFiles' = getKeysFiles(giListing)
  /\ giStatus' = "next"
  /\ UNCHANGED <<giListing, giIndex, giOpened, giEvents>>
  /\ UNCHANGED notPairIterator

\* the loop over files.entries() opens the next file: createStream()
PairIteratorOpen ==
  /\ giStatus = "next"
  /\ giIndex < Len(giFiles)
  /\ giIndex' = giIndex + 1
  /\ giOpened' = Append(giOpened, giFiles[giIndex + 1])
  /\ giStatus' = "reading"
  /\ UNCHANGED <<giListing, giFiles, giEvents>>
  /\ UNCHANGED notPairIterator

\* splitParse yields a record of the open file, which is yielded on
PairIteratorYield ==
  /\ giStatus = "reading"
  /\ Cardinality({ j \in 1..Len(giEvents) : giEvents[j] = giFiles[giIndex] }) < MaxPerChunk
  /\ giEvents' = Append(giEvents, giFiles[giIndex])
  /\ UNCHANGED <<giStatus, giListing, giFiles, giIndex, giOpened>>
  /\ UNCHANGED notPairIterator

\* the open file is exhausted
PairIteratorFileEnd ==
  /\ giStatus = "reading"
  /\ giStatus' = "next"
  /\ UNCHANGED <<giListing, giFiles, giIndex, giOpened, giEvents>>
  /\ UNCHANGED notPairIterator

\* the loop over the files is over
PairIteratorEnd ==
  /\ giStatus = "next"
  /\ giIndex = Len(giFiles)
  /\ giStatus' = "end"
  /\ UNCHANGED <<giListing, giFiles, giIndex, giOpened, giEvents>>
  /\ UNCHANGED notPairIterator

NextPairIterator ==
  \/ PairIteratorDiscover
  \/ PairIteratorOpen
  \/ PairIteratorYield
  \/ PairIteratorFileEnd
  \/ PairIteratorEnd

SpecPairIterator == InitPairIterator /\ [][NextPairIterator]_vars

(***************************************************************************)
(* Properties of discovery and ingestion.                                  *)
(***************************************************************************)
\* the name is keys-<digits>.json or keys-<digits>.json.xz
IsJournalName(f) ==
  \E n \in 1..Len(f) :
    /\ Len(f) >= 5 + n
    /\ SubSeq(f, 1, 5) = KeysPrefix
    /\ \A j \in 6..(5 + n) : f[j] \in Digits
    /\ Drop(f, 5 + n) \in { JsonPostfix, JsonPostfix \o XzPostfix }

\* the names getKeysFiles has returned
Discovered == { giFiles[j] : j \in 1..Len(giFiles) }

\* C15 (as claimed): discovery returns exactly the listed names of the form
\* keys-<chunk-id>.json or keys-<chunk-id>.json.xz, sorted ascending.
C15_DiscoveryReturnsJournals ==
  giStatus # "start" =>
    /\ Discovered = { giListing[j] : j \in 1..Len(giListing) } \cap { f \in FileNames : IsJournalName(f) }
    /\ \A i, j \in 1..Len(giFiles) : i < j => StringLess(giFiles[i], giFiles[j])

\* C16 (as claimed): the chunks are opened in ascending numeric chunk id, and
\* the records are delivered in that order, a chunk's records together.
C16_AscendingChunkOrder ==
  /\ \A i, j \in 1..Len(giOpened) :
       i < j => getKeysFileChunk(giOpened[i]) < getKeysFileChunk(giOpened[j])
  /\ \A i, j \in 1..Len(giEvents) :
       i < j => getKeysFileChunk(giEvents[i]) <= getKeysFileChunk(giEvents[j])

(***************************************************************************)
(* The modulus list file between the extract tool and the audit: written   *)
(* by main of bin/flatten.ts (hex lines, or packed binary), read by main   *)
(* of bin/check.ts through splitParse and parseModulo.                     *)
(***************************************************************************)
MaxList == 2

\* the moduli of the model, as big-endian bytes
TableModuli == { <<193>>, <<101>>, <<7>>, <<10>>, <<1, 0>> }

\* the modulus tables of the model: hex strings as parseSSHRSAKey returns them
Tables ==
  UNION { [1..n -> { BytesToHex(b) : b \in TableModuli }] : n \in 0..MaxList }

\* the byte Buffer.from(string) gives a hexadecimal digit character
CodeOfChar(c) == IF HexValue(c) < 10 THEN 48 + HexValue(c) ELSE 87 + HexValue(c)

\* out.write(key + '\n')
HexLineBytes(key) == [j \in 1..Len(key) |-> CodeOfChar(key[j])] \o <<10>>

RECURSIVE HexListFile(_)
\* the file the hex version of the extract tool writes
HexListFile(list) ==
  IF list = <<>> THEN <<>> ELSE HexLineBytes(Head(list)) \o HexListFile(Tail(list))

RECURSIVE PackedListFile(_)
\* the file the packed-binary version of the extract tool writes
PackedListFile(list) ==
  IF list = <<>> THEN <<>> ELSE PackedChunk(Head(list)) \o PackedListFile(Tail(list))

\* the value of a code point as a hexadecimal digit, 16 when it is none
HexDigitOfCode(c) ==
  IF c \in 48..57 THEN c - 48
  ELSE IF c \in 97..102 THEN c - 87
  ELSE IF c \in 65..70 THEN c - 55
  ELSE 16

\* BigInt(`0x${value}`) raises a SyntaxError
ParseModuloRaises(value) ==
  \E j \in 1..Len(value) : HexDigitOfCode(value[j]) = 16

\* parseModulo of a line read from the file
ParseModuloLine(value) ==
  parseModulo([j \in 1..Len(value) |-> HexChars[HexDigitOfCode(value[j]) + 1]])

\* what splitParse hands to parse when the file comes as the chunks
\* file[0..n) and file[n..)
LinesOfFile(file, n) ==
  LET first == SplitChunk(SubSeq(file, 1, n), 0, 0, <<>>, <<>>)
      second == IF n < Len(file)
                THEN SplitChunk(SubSeq(file, n + 1, Len(file)), 0, 0,
                                first.buffer, first.yields)
                ELSE first
  IN  IF second.buffer # <<>> THEN Append(second.yields, second.buffer)
      ELSE second.yields

InitModulusList ==
  /\ CheckIdle
  /\ FlattenIdle
  /\ OnlyRunning("modulusList")
  /\ mlStatus = "start"
  /\ mlList \in Tables
  /\ mlEncoding \in {"hex", "packed"}
  /\ mlFile = <<>>
  /\ mlModuli = <<>>

\* the extract tool writes the table in its form
ModulusListWrite ==
  /\ mlStatus = "start"
  /\ mlFile' = IF mlEncoding = "hex" THEN HexListFile(mlList) ELSE PackedListFile(mlList)
  /\ mlStatus' = "written"
  /\ UNCHANGED <<mlList, mlEncoding, mlModuli>>
  /\ UNCHANGED notModulusList

\* main of the audit reads the file, delivered in chunks cut at n; an
\* exception of parseModulo ends main
ModulusListRead(n) ==
  /\ mlStatus = "written"
  /\ n <= Len(mlFile)
  /\ LET lines == LinesOfFile(mlFile, n)
     IN  IF \E j \in 1..Len(lines) : ParseModuloRaises(lines[j])
         THEN /\ mlStatus' = "error"
              /\ UNCHANGED mlModuli
         ELSE /\ mlStatus' = "read"
              /\ mlModuli' = [j \in 1..Len(lines) |-> ParseModuloLine(lines[j])]
  /\ UNCHANGED <<mlList, mlEncoding, mlFile>>
  /\ UNCHANGED notModulusList

NextModulusList ==
  \/ ModulusListWrite
  \/ \E n \in 0..(5 * MaxList) : ModulusListRead(n)

SpecModulusList == InitModulusList /\ [][NextModulusList]_vars

\* the modulus at each index of the table, as a number
TableValues == [j \in 1..Len(mlList) |-> ParseHexDigits(mlList[j])]

\* C17 (as claimed): whichever form the list was written in, the audit reads
\* it without error and obtains the moduli of the table at the same indices.
C17_BothEncodingsRead ==
  mlStatus \in {"read", "error"} => (mlStatus = "read" /\ mlModuli = TableValues)

\* The statement of C17 for the hex-line form alone: it holds there.
HexListReadBack ==
  (mlStatus \in {"read", "error"} /\ mlEncoding = "hex")
    => (mlStatus = "read" /\ mlModuli = TableValues)

(***************************************************************************)
(* The harvester (bin/collect.ts): main, getKeysFileStats and fetchPairs.  *)
(* A run never ends by itself (fetchPairs loops for ever); it is stopped   *)
(* from outside and started again.  The xz process that main spawns at a   *)
(* rotation finishes at some later time.                                   *)
(***************************************************************************)
\* records per chunk before main rotates (1 << 20 in the source)
SPLIT_SIZE == 2
MaxUserId == 4
MaxChunks == 3
MaxRuns == 2

\* a file that does not exist
NoFile == [exists |-> FALSE, ids |-> <<>>]

\* a journal file holding the records of the given user ids
FileOf(ids) == [exists |-> TRUE, ids |-> ids]

RECURSIVE PadChunk(_)
\* while (chunk.length !== 4) chunk = '0' + chunk
PadChunk(chunk) == IF Len(chunk) = 4 THEN chunk ELSE PadChunk(<<"0">> \o chunk)

\* keysFileName(chunkId)
keysFileName(chunkId) == KeysPrefix \o PadChunk(ToDec(chunkId)) \o JsonPostfix

RECURSIVE DirListing(_)
\* readdir of the keys directory: the names of the files of chunks c and up
DirListing(c) ==
  IF c > MaxChunks THEN <<>>
  ELSE (IF hvJson[c].exists THEN <<keysFileName(c)>> ELSE <<>>)
       \o (IF hvXz[c].exists THEN <<keysFileName(c) \o XzPostfix>> ELSE <<>>)
       \o DirListing(c + 1)

\* file.endsWith('.xz')
EndsWithXz(file) ==
  Len(file) >= 3 /\ SubSeq(file, Len(file) - 2, Len(file)) = XzPostfix

RECURSIVE MaxOf(_)
\* lastId = Math.max(lastId, pair.user.id) over the records, from 0
MaxOf(ids) ==
  IF ids = <<>> THEN 0
  ELSE IF Head(ids) > MaxOf(Tail(ids)) THEN Head(ids) ELSE MaxOf(Tail(ids))

InitHarvester ==
  /\ CheckIdle
  /\ FlattenIdle
  /\ OnlyRunning("harvester")
  /\ hvStatus = "stopped"
  /\ hvJson = [c \in 1..MaxChunks |-> NoFile]
  /\ hvXz = [c \in 1..MaxChunks |-> NoFile]
  /\ hvPending = {}
  /\ hvChunkId = 0
  /\ hvSize = 0
  /\ hvCurrent = 0
  /\ hvOut = FALSE
  /\ hvRuns = 0

\* main up to its loop: discovery, the choice of keysFile, getKeysFileStats.
\* The bytes of a compressed file are not JSON: JSON.parse raises on them.
HarvesterStart ==
  /\ hvStatus = "stopped"
  /\ hvRuns < MaxRuns
  /\ hvRuns' = hvRuns + 1
  /\ hvOut' = FALSE
  /\ LET files == getKeysFiles(DirListing(1))
     IN  IF files = <<>>
         THEN /\ hvChunkId' = 1
              /\ hvJson' = [hvJson EXCEPT ![1] = FileOf(<<>>)]
              /\ hvSize' = 0
              /\ hvCurrent' = 1
              /\ hvStatus' = "running"
         ELSE LET lastFile == files[Len(files)]
                  chunk == getKeysFileChunk(lastFile)
              IN  /\ hvChunkId' = chunk
                  /\ UNCHANGED hvJson
                  /\ IF EndsWithXz(lastFile)
                     THEN /\ hvStatus' = "error"
                          /\ UNCHANGED <<hvSize, hvCurrent>>
                     ELSE /\ hvStatus' = "running"
                          /\ hvSize' = Len(hvJson[chunk].ids)
                          /\ hvCurrent' = MaxOf(hvJson[chunk].ids) + 1
  /\ UNCHANGED <<hvXz, hvPending>>
  /\ UNCHANGED notHarvester

\* one turn of the loop of main for the next user that exists: a rotation
\* when the chunk is full, then the record is appended (flags a+)
HarvesterPair(id) ==
  /\ hvStatus = "running"
  /\ id >= hvCurrent
  /\ LET rotate == hvSize >= SPLIT_SIZE
         chunk == IF rotate THEN hvChunkId + 1 ELSE hvChunkId
     IN  /\ chunk <= MaxChunks
         /\ hvChunkId' = chunk
         /\ hvPending' = IF rotate THEN hvPending \cup {hvChunkId} ELSE hvPending
         /\ hvJson' = [hvJson EXCEPT ![chunk] = FileOf(Append(@.ids, id))]
         /\ hvSize' = (IF rotate THEN 0 ELSE hvSize) + 1
  /\ hvCurrent' = id + 1
  /\ hvOut' = TRUE
  /\ UNCHANGED <<hvStatus, hvXz, hvRuns>>
  /\ UNCHANGED notHarvester

\* the run is stopped from outside
HarvesterStop ==
  /\ hvStatus = "running"
  /\ hvStatus' = "stopped"
  /\ hvOut' = FALSE
  /\ UNCHANGED <<hvJson, hvXz, hvPending, hvChunkId, hvSize, hvCurrent, hvRuns>>
  /\ UNCHANGED notHarvester

\* xz --compress of chunk c finishes: the file is replaced by its .xz form
\* (xz leaves both alone when the .xz form exists)
HarvesterXzDone(c) ==
  /\ c \in hvPending
  /\ ~(hvStatus = "running" /\ c = hvChunkId)
  /\ hvPending' = hvPending \ {c}
  /\ IF hvJson[c].exists /\ ~hvXz[c].exists
     THEN /\ hvXz' = [hvXz EXCEPT ![c] = hvJson[c]]
          /\ hvJson' = [hvJson EXCEPT ![c] = NoFile]
     ELSE UNCHANGED <<hvJson, hvXz>>
  /\ UNCHANGED <<hvStatus, hvChunkId, hvSize, hvCurrent, hvOut, hvRuns>>
  /\ UNCHANGED notHarvester

NextHarvester ==
  \/ HarvesterStart
  \/ \E id \in 1..MaxUserId : HarvesterPair(id)
  \/ HarvesterStop
  \/ \E c \in 1..MaxChunks : HarvesterXzDone(c)

SpecHarvester == InitHarvester /\ [][NextHarvester]_vars

RECURSIVE JournalIds(_)
\* the user ids of the records of the journals of chunks c and up, in order
JournalIds(c) ==
  IF c > MaxChunks THEN <<>>
  ELSE hvXz[c].ids \o hvJson[c].ids \o JournalIds(c + 1)

\* C18 (as claimed): the user ids in the journals are strictly ascending
\* within and across chunks, so that no user id occurs twice.
C18_JournalIdsAscending ==
  \A i, j \in 1..Len(JournalIds(1)) : i < j => JournalIds(1)[i] < JournalIds(1)[j]

(***************************************************************************)
(* productTree called on value lists of every length up to MaxValues.      *)
(***************************************************************************)
MaxValues == 8

\* heads sent to a worker are at most MaxHead
MaxHead == 10

\* the lists productTree is called on
ValueLists == UNION { [1..n -> 1..3] : n \in 0..MaxValues }

InitProductTree ==
  /\ CheckIdle
  /\ FlattenIdle
  /\ OnlyRunning("productTree")
  /\ ptStatus = "call"
  /\ ptValues \in ValueLists
  /\ ptTree = <<>>
  /\ ptHead = 0
  /\ ptRemainders = <<>>

\* productTree(values) returns its tree
ProductTreeReturn ==
  /\ ptStatus = "call"
  /\ ~ProductTreeThrows(ptValues)
  /\ ptStatus' = "returned"
  /\ ptTree' = productTree(ptValues)
  /\ UNCHANGED <<ptValues, ptHead, ptRemainders>>
  /\ UNCHANGED notProductTree

\* productTree(values) raises an error
ProductTreeThrow ==
  /\ ptStatus = "call"
  /\ ProductTreeThrows(ptValues)
  /\ ptStatus' = "threw"
  /\ UNCHANGED <<ptValues, ptTree, ptHead, ptRemainders>>
  /\ UNCHANGED notProductTree

\* remainderTree(tree) on the tree productTree returned, as the driver calls
\* it (bin/check.ts) and as the single-process audit does
RemainderTreeOwnRoot ==
  /\ ptStatus = "returned"
  /\ ptStatus' = "remainders"
  /\ ptHead' = ptTree[1][1]
  /\ ptRemainders' = remainderTree(ptTree)
  /\ UNCHANGED <<ptValues, ptTree>>
  /\ UNCHANGED notProductTree

\* remainderTree(treeCopy) for treeCopy[0] = [ head ], as the worker calls it
\* on the head the driver sent
RemainderTreeSplicedHead(head) ==
  /\ ptStatus = "returned"
  /\ ptStatus' = "remainders"
  /\ ptHead' = head
  /\ ptRemainders' = remainderTree(SpliceHead(ptTree, head))
  /\ UNCHANGED <<ptValues, ptTree>>
  /\ UNCHANGED notProductTree

NextProductTree ==
  \/ ProductTreeReturn
  \/ ProductTreeThrow
  \/ RemainderTreeOwnRoot
  \/ \E head \in 0..MaxHead : RemainderTreeSplicedHead(head)

SpecProductTree == InitProductTree /\ [][NextProductTree]_vars

\* C19: productTree raises an error and returns no tree exactly when the
\* length of its argument is not a power of two (0, 3, 5, 6, 7, ...); for a
\* power of two (1 included) it returns a tree whose last level is the
\* argument and whose first level is the single product of all values.
C19_ProductTreeLengths ==
  ptStatus \in {"returned", "threw"} =>
    /\ ptStatus = "threw" <=> ~IsPowerOfTwo(Len(ptValues))
    /\ ptStatus = "threw" => ptTree = <<>>
    /\ ptStatus = "returned" =>
         /\ ptTree # <<>>
         /\ ptTree[Len(ptTree)] = ptValues
         /\ ptTree[1] = <<ProductOf(ptValues)>>

\* C19 witness: a list of six values, whose halved length is odd, was refused
C19_Witness ==
  /\ ptStatus = "threw"
  /\ Len(ptValues) = 6

(***************************************************************************)
(* The divisor reported for a match of the parallel check.                 *)
(***************************************************************************)
\* the modulus of the j-th match
MatchModulus(j) == moduli[matches[j].index + 1]

\* the product of all moduli but that of the j-th match
OthersProduct(j) == ProductOf(moduli) \div MatchModulus(j)

\* gcd(floor(R / M), M) for R = P mod M^2, M the modulus of the j-th match
QuotientDivisor(j) ==
  GreatestCommonDivisor(
    MatchModulus(j),
    (ProductOf(moduli) % (MatchModulus(j) * MatchModulus(j))) \div MatchModulus(j))

\* C20: the divisor of every match is gcd(floor(R_i / M_i), M_i) for
\* R_i = P mod M_i^2, which is gcd(M_i, product of the other moduli); it
\* divides M_i, is greater than 1, and is M_i itself exactly when M_i divides
\* the product of the other moduli; it is the divisor printed on the match's
\* line.
C20_DivisorIsSharedFactor ==
  CheckReturned =>
    \A j \in 1..Len(matches) :
      /\ matches[j].divisor = QuotientDivisor(j)
      /\ matches[j].divisor = GreatestCommonDivisor(MatchModulus(j), OthersProduct(j))
      /\ MatchModulus(j) % matches[j].divisor = 0
      /\ matches[j].divisor > 1
      /\ matches[j].divisor = MatchModulus(j) <=> OthersProduct(j) % MatchModulus(j) = 0
      /\ pc = "done" =>
           stdout[j] = ToDec(matches[j].index) \o <<",">> \o ToHex(QuotientDivisor(j))

\* C20 witness: a finished audit on several workers with a match whose
\* divisor is the modulus itself and a match whose divisor is a proper factor
C20_Witness ==
  /\ pc = "done"
  /\ cpuCount >= 2
  /\ \E j \in 1..Len(matches) : matches[j].divisor = MatchModulus(j)
  /\ \E j \in 1..Len(matches) : matches[j].divisor < MatchModulus(j)

(***************************************************************************)
(* remainderTree on the trees of productTree, with the tree's own root or  *)
(* a spliced head at level 0 (specification SpecProductTree).              *)
(***************************************************************************)
\* the leaves remainderTree returned are the head reduced modulo the square
\* of each leaf of the tree
LeavesAreHeadModSquares ==
  /\ Len(ptRemainders) = Len(ptValues)
  /\ \A j \in 1..Len(ptValues) :
       ptRemainders[j] = ptHead % (ptValues[j] * ptValues[j])

\* C21 (as claimed): for every product tree and every head at level 0, the
\* array remainderTree returns holds, for every leaf, the head modulo the
\* square of that leaf.
C21_LeavesAreHeadModSquaresAsClaimed ==
  ptStatus = "remainders" => LeavesAreHeadModSquares

\* C21: for every product tree of at least two levels and every head at
\* level 0 (the tree's own root or a spliced head), remainderTree returns
\* one remainder per leaf, the head modulo the square of that leaf; for a
\* tree of one level it returns the head itself, not reduced.
C21_LeavesAreHeadModSquares ==
  ptStatus = "remainders" =>
    IF Len(ptTree) >= 2 THEN LeavesAreHeadModSquares
    ELSE ptRemainders = <<ptHead>>

\* C21 witness: a spliced head greater than the square of a leaf was reduced
\* through a tree of four levels
C21_Witness ==
  /\ ptStatus = "remainders"
  /\ Len(ptTree) = 4
  /\ ptHead # ptTree[1][1]
  /\ \E j \in 1..Len(ptValues) :
       /\ ptHead > ptValues[j] * ptValues[j]
       /\ ptRemainders[j] # 0
       /\ ptRemainders[j] # ptHead

\* C22: for every list of 2^k values productTree returns k + 1 levels; the
\* last level is the list, level i has 2^i entries, every entry of a level
\* is the product of entries 2j and 2j + 1 of the level below, and level 0
\* is the single product of all values; a list of one value gives a tree of
\* that one level.
C22_ProductTreeShape ==
  ptStatus \in {"returned", "remainders"} =>
    /\ Len(ptValues) = 2 ^ (Len(ptTree) - 1)
    /\ ptTree[Len(ptTree)] = ptValues
    /\ \A i \in 1..Len(ptTree) : Len(ptTree[i]) = 2 ^ (i - 1)
    /\ \A i \in 1..(Len(ptTree) - 1) : \A j \in 1..Len(ptTree[i]) :
         ptTree[i][j] = ptTree[i + 1][2 * j - 1] * ptTree[i + 1][2 * j]
    /\ ptTree[1] = <<ProductOf(ptValues)>>
    /\ Len(ptValues) = 1 => ptTree = <<ptValues>>

\* C22 witness: a tree of four levels over eight values that are not all
\* equal was returned
C22_Witness ==
  /\ ptStatus = "returned"
  /\ Len(ptValues) = 8
  /\ Len(ptTree) = 4
  /\ ptValues[1] # ptValues[2]
  /\ ptValues[2] # ptValues[3]

(***************************************************************************)
(* The quotient form and the mod form of the last step of the batch GCD    *)
(* (specification SpecCheck).                                              *)
(***************************************************************************)
\* n is divisible by no square greater than 1
IsSquarefree(n) == \A d \in 2..n : n % (d * d) # 0

\* the gcd the workers computed for the j-th modulus: gcd((P mod N^2) / N, N)
QuotientForm(j) == Flat(gcdsRes)[j]

\* gcd((P mod N^2) mod N, N) for the j-th modulus N and the product P of all
ModForm(j) ==
  gcd((ProductOf(moduli) % (moduli[j] * moduli[j])) % moduli[j], moduli[j])

\* C23 (as claimed): for every squarefree modulus of the list the quotient
\* form computed by the workers equals the mod form.
C23_QuotientFormIsModFormAsClaimed ==
  CheckReturned =>
    \A j \in 1..Len(moduli) :
      IsSquarefree(moduli[j]) => QuotientForm(j) = ModForm(j)

\* C23: for every modulus N of the list, squarefree or not, the mod form is N
\* itself (N divides P), while the quotient form computed by the workers is
\* gcd(N, P / N); the two are equal exactly when N divides the product of the
\* other moduli.
C23_QuotientFormIsGcdWithOthers ==
  CheckReturned =>
    \A j \in 1..Len(moduli) :
      LET N == moduli[j]
          others == ProductOf(moduli) \div N
      IN  /\ ModForm(j) = N
          /\ QuotientForm(j) = GreatestCommonDivisor(N, others)
          /\ QuotientForm(j) = ModForm(j) <=> others % N = 0

\* C23 witness: a finished audit with three squarefree moduli greater than 1:
\* one whose quotient form is 1, one whose quotient form is a proper divisor,
\* and one whose quotient form is the modulus itself
C23_Witness ==
  /\ pc = "done"
  /\ \E a, b, c \in 1..Len(moduli) :
       /\ moduli[a] > 1 /\ moduli[b] > 1 /\ moduli[c] > 1
       /\ IsSquarefree(moduli[a]) /\ IsSquarefree(moduli[b]) /\ IsSquarefree(moduli[c])
       /\ QuotientForm(a) = 1
       /\ QuotientForm(b) \notin {1, moduli[b]}
       /\ QuotientForm(c) = moduli[c]

(***************************************************************************)
(* The two-phase protocol between the driver and its workers               *)
(* (specification SpecCheck).                                              *)
(***************************************************************************)
\* the types of the requests sent to worker w so far, in order
SentTypes(w) == [i \in 1..Len(sentLog[w]) |-> sentLog[w][i].type]

\* the requests sent to worker w that it has not answered
Unanswered(w) == Len(sentLog[w]) - Len(replyLog[w])

\* worker w is about to raise 'Expected to compute product tree first!'
ExpectedTreeFirst(w) ==
  /\ wState[w] = "running"
  /\ toWorker[w] # <<>>
  /\ Head(toWorker[w]).type = "remainder-tree"
  /\ wTree[w] = <<>>

\* C24: in every reachable state each worker has at most one request it has
\* not answered; the requests it was sent are one product-tree request, then
\* at most one remainder-tree request (exactly one of each once check has
\* returned); a remainder-tree request is sent to and handled by a worker
\* only after it has built, retained and reported its product tree, so the
\* error 'Expected to compute product tree first!' is never raised.
C24_TwoPhaseProtocol ==
  \A w \in Workers :
    /\ Unanswered(w) \in {0, 1}
    /\ Len(toWorker[w]) <= 1
    /\ SentTypes(w) \in {<<"product-tree">>, <<"product-tree", "remainder-tree">>}
    /\ CheckReturned => SentTypes(w) = <<"product-tree", "remainder-tree">>
    /\ Len(sentLog[w]) = 2 =>
         /\ wTree[w] # <<>>
         /\ replyLog[w] # <<>>
         /\ replyLog[w][1].type = "product-tree"
    /\ ~ExpectedTreeFirst(w)

\* C24 witness: a worker that retained its tree has a remainder-tree request
\* to handle while another worker's gcds have already reached the driver
C24_Witness ==
  /\ pc = "awaitGcds"
  /\ \E w, v \in Workers :
       /\ w # v
       /\ toWorker[w] # <<>>
       /\ Head(toWorker[w]).type = "remainder-tree"
       /\ Len(wTree[w]) >= 2
       /\ gcdsRes[v] # <<>>

(***************************************************************************)
(* The audit when no worker fails, with every sent message delivered and   *)
(* every continuation of the driver run: the event loops of the driver and *)
(* of each worker process run the handlers of the messages they received.  *)
(***************************************************************************)
\* the steps of the driver process
DriverStep ==
  \/ MainReadAndPad
  \/ CheckReject
  \/ CheckDistribute
  \/ \E w \in 1..MaxCpu : DriverOnProductTree(w)
  \/ DriverSendHeads
  \/ \E w \in 1..MaxCpu : DriverOnRemainderTree(w)
  \/ CheckReturn
  \/ MainPrint

NextCheckFair ==
  \/ DriverStep
  \/ \E w \in 1..MaxCpu : WorkerOnMessage(w)

\* a handler that is ready to run is never postponed for ever: this is the
\* weakest of the fairness conditions the event loops provide (it follows
\* from weak fairness of each process taken alone)
SpecCheckFair ==
  /\ InitCheck
  /\ [][NextCheckFair]_vars
  /\ WF_vars(NextCheckFair)

\* check accepted the worker count and forked its workers
Accepted == pc = "awaitProducts"

\* the driver has the product-tree reply of each of its k workers
AllProductsReceived ==
  /\ Len(treeTops) = cpuCount
  /\ \A w \in Workers :
       /\ treeTops[w] # 0
       /\ Len(replyLog[w]) >= 1
       /\ replyLog[w][1].type = "product-tree"

\* the driver has the remainder-tree reply of each of its k workers
AllGcdsReceived ==
  /\ Len(gcdsRes) = cpuCount
  /\ \A w \in Workers :
       /\ gcdsRes[w] # <<>>
       /\ Len(replyLog[w]) = 2
       /\ replyLog[w][2].type = "remainder-tree"
       /\ toDriver[w] = <<>>

\* the audit finished: all replies were received, the workers were
\* terminated and the matches were written
Finished ==
  /\ pc = "done"
  /\ AllProductsReceived
  /\ AllGcdsReceived
  /\ \A w \in Workers : wState[w] = "killed"
  /\ stdout = PrintMatches(matches)

\* C25: when the worker count is accepted and no worker fails, the driver
\* eventually has all k product-tree replies and all k remainder-tree
\* replies, terminates the k workers, writes the matches and finishes; no
\* worker is terminated before the last remainder-tree reply was received,
\* and a step is possible in every state but the final ones.
C25_AuditTerminates ==
  /\ Accepted ~> Finished
  /\ [](\A w \in Workers : wState[w] = "killed" => AllGcdsReceived)
  /\ [](\A w \in Workers : wState[w] # "crashed")
  /\ [](pc \notin {"done", "error"} => ENABLED NextCheckFair)

\* C25 witness: an audit by four workers finished after a reply had
\* overtaken that of a lower worker
C25_Witness ==
  /\ Finished
  /\ cpuCount = 4
  /\ outOfOrder
  /\ matches # <<>>

(***************************************************************************)
(* getUnorderedPairIterator: one reader thread per CPU (src/worker.ts)     *)
(* posts pages of records to the main thread, which buffers them and       *)
(* hands them out through next.                                            *)
(***************************************************************************)
\* bufferSize: the number of records of a full page (1024 in the source)
BUFFER_SIZE == 2
\* largest number of journal files of the directory
MaxJournals == 2
\* largest number of records of one journal file
MaxPerJournal == 3
\* largest number of reader threads
MaxThreads == 3

\* the records of the journal files with the given record counts: record r
\* of file i is 10 * i + r
JournalRecords(counts) ==
  [i \in 1..Len(counts) |-> [r \in 1..counts[i] |-> 10 * i + r]]

\* the directories read
JournalDirs ==
  { JournalRecords(counts) :
      counts \in UNION { [1..n -> 0..MaxPerJournal] : n \in 0..MaxJournals } }

\* if ((i % workerCount) !== index) continue: the records reader thread w
\* (index w - 1) reads, in order
ReaderRecords(files, workerCount, w) ==
  Flat([i \in 1..Len(files) |->
          IF (i - 1) % workerCount = w - 1 THEN files[i] ELSE <<>>])

RECURSIVE Pages(_)
\* the pages of main: a page is posted as soon as the buffer holds
\* bufferSize records, and what is left (possibly nothing) after the last file
Pages(records) ==
  IF Len(records) >= BUFFER_SIZE
  THEN <<Slice(records, 0, BUFFER_SIZE)>>
         \o Pages(Slice(records, BUFFER_SIZE, Len(records)))
  ELSE <<records>>

\* the messages reader thread w posts: its pages, then the empty page
ReaderMessages(files, workerCount, w) ==
  Pages(ReaderRecords(files, workerCount, w)) \o << <<>> >>

\* the state after getUnorderedPairIterator(dir) returned its iterator
InitUnordered ==
  /\ CheckIdle
  /\ FlattenIdle
  /\ OnlyRunning("getUnorderedPairIterator")
  /\ upStatus = "running"
  /\ upFiles \in JournalDirs
  /\ upWorkers \in 1..MaxThreads
  /\ upPosted = [w \in 1..upWorkers |-> 0]
  /\ upInbox = [w \in 1..upWorkers |-> <<>>]
  /\ upHandled = [w \in 1..upWorkers |-> 0]
  /\ upBuffer = <<>>
  /\ upRemaining = upWorkers
  /\ upResume = FALSE
  /\ upYielded = <<>>
  /\ upDone = FALSE

\* parentPort.postMessage of reader thread w
ReaderPost(w) ==
  /\ upStatus = "running"
  /\ w \in 1..upWorkers
  /\ upPosted[w] < Len(ReaderMessages(upFiles, upWorkers, w))
  /\ upInbox' = [upInbox EXCEPT
                   ![w] = Append(@, ReaderMessages(upFiles, upWorkers, w)[upPosted[w] + 1])]
  /\ upPosted' = [upPosted EXCEPT ![w] = @ + 1]
  /\ UNCHANGED <<upStatus, upFiles, upWorkers, upHandled, upBuffer, upRemaining,
                 upResume, upYielded, upDone>>
  /\ UNCHANGED notUnordered

\* the body of next, run on buffer buf and counter rem: a record is shifted
\* off the buffer, or done is reported, or a promise is awaited
RunNext(buf, rem) ==
  /\ IF buf # <<>>
     THEN /\ upYielded' = Append(upYielded, Head(buf))
          /\ upBuffer' = Tail(buf)
          /\ upResume' = FALSE
          /\ UNCHANGED upDone
     ELSE IF rem = 0
     THEN /\ upDone' = TRUE
          /\ upBuffer' = buf
          /\ upResume' = FALSE
          /\ UNCHANGED upYielded
     ELSE /\ upResume' = TRUE
          /\ upBuffer' = buf
          /\ UNCHANGED <<upYielded, upDone>>

\* if (page.length === 0)
CountsAsFinal(page, w) == page = <<>>

\* worker.on('message') for a message of reader thread w; the call of next
\* that was waiting goes on as soon as the handler has returned
MainOnMessage(w) ==
  /\ upStatus = "running"
  /\ w \in 1..upWorkers
  /\ upInbox[w] # <<>>
  /\ upInbox' = [upInbox EXCEPT ![w] = Tail(@)]
  /\ upHandled' = [upHandled EXCEPT ![w] = @ + 1]
  /\ LET page == Head(upInbox[w])
         rem == IF CountsAsFinal(page, w) THEN upRemaining - 1 ELSE upRemaining
     IN  /\ upRemaining' = rem
         /\ IF upResume
            THEN RunNext(upBuffer \o page, rem)
            ELSE /\ upBuffer' = upBuffer \o page
                 /\ UNCHANGED <<upResume, upYielded, upDone>>
  /\ UNCHANGED <<upStatus, upFiles, upWorkers, upPosted>>
  /\ UNCHANGED notUnordered

\* the consumer (for await) calls next
ConsumerNext ==
  /\ upStatus = "running"
  /\ ~upResume
  /\ ~upDone
  /\ RunNext(upBuffer, upRemaining)
  /\ UNCHANGED <<upStatus, upFiles, upWorkers, upPosted, upInbox, upHandled,
                 upRemaining>>
  /\ UNCHANGED notUnordered

NextUnordered ==
  \/ \E w \in 1..MaxThreads : ReaderPost(w)
  \/ \E w \in 1..MaxThreads : MainOnMessage(w)
  \/ ConsumerNext

SpecUnordered == InitUnordered /\ [][NextUnordered]_vars

\* the records of all journal files
AllRecords ==
  UNION { { upFiles[i][r] : r \in 1..Len(upFiles[i]) } : i \in 1..Len(upFiles) }

\* C26 (as claimed): for every number of journal files and reader threads
\* and every interleaving, no record is yielded twice, only records of the
\* journals are yielded, and done is reported only after every record of
\* every reader thread was yielded.
C26_EveryRecordOnceBeforeDone ==
  /\ \A a, b \in 1..Len(upYielded) : a # b => upYielded[a] # upYielded[b]
  /\ \A a \in 1..Len(upYielded) : upYielded[a] \in AllRecords
  /\ upDone => { upYielded[a] : a \in 1..Len(upYielded) } = AllRecords

\* the reader threads whose last message the main thread has not handled
Unfinished ==
  { w \in 1..upWorkers : upHandled[w] < Len(ReaderMessages(upFiles, upWorkers, w)) }

\* C27 (as claimed): remaining is the number of reader threads whose final
\* message has not arrived yet, and is never negative; when all reader
\* threads have finished and the buffer is empty, a call of next is not left
\* waiting.
C27_RemainingCountsUnfinished ==
  /\ upStatus = "running" => upRemaining = Cardinality(Unfinished)
  /\ upRemaining >= 0
  /\ (Unfinished = {} /\ upBuffer = <<>>) => ~upResume


(***************************************************************************)
(* The compare tool (bin/compare.ts): two journals, each in ascending      *)
(* order of user id, are merged by user id.                                *)
(***************************************************************************)
\* largest user id of a record of the two directories
MaxCompareId == 4

\* the ids 1..n that are in the set ids, in ascending order
AscendingIds(ids, n) == SelectSeq([i \in 1..n |-> i], LAMBDA i : i \in ids)

\* the journals of a directory: strictly ascending user ids
IdJournals == { AscendingIds(ids, MaxCompareId) : ids \in SUBSET (1..MaxCompareId) }

\* the result of the n-th call of next() of the iterator over a journal
EntryOf(journal, n) ==
  IF n <= Len(journal) THEN [done |-> FALSE, id |-> journal[n]]
  ELSE [done |-> TRUE, id |-> 0]

\* oldEntry and newEntry
OldEntry == EntryOf(cmOld, cmOldNext)
NewEntry == EntryOf(cmNew, cmNewNext)

InitCompare ==
  /\ CheckIdle
  /\ FlattenIdle
  /\ OnlyRunning("compare")
  /\ cmStatus = "start"
  /\ cmOld \in IdJournals
  /\ cmNew \in IdJournals
  /\ cmOldNext = 0
  /\ cmNewNext = 0
  /\ cmLeft = 0
  /\ cmJoined = 0
  /\ cmCompared = 0
  /\ cmClassified = <<>>

\* oldEntry = await oldIter.next(); newEntry = await newIter.next()
CompareStart ==
  /\ cmStatus = "start"
  /\ cmStatus' = "merge"
  /\ cmOldNext' = 1
  /\ cmNewNext' = 1
  /\ UNCHANGED <<cmOld, cmNew, cmLeft, cmJoined, cmCompared, cmClassified>>
  /\ UNCHANGED notCompare

\* one pass of the merge loop. The statement after the branch of equal ids
\* is "if", not "else if": after compare has run and both iterators have
\* advanced, the second statement is evaluated on the same two pairs, and
\* as their ids are not in ascending order its else branch runs
CompareMerge ==
  /\ cmStatus = "merge"
  /\ ~OldEntry.done
  /\ ~NewEntry.done
  /\ LET oldId == OldEntry.id
         newId == NewEntry.id
         equal == oldId = newId
         classified1 == IF equal
                        THEN Append(cmClassified, [id |-> oldId, as |-> "compared"])
                        ELSE cmClassified
         oldNext1 == IF equal THEN cmOldNext + 1 ELSE cmOldNext
         newNext1 == IF equal THEN cmNewNext + 1 ELSE cmNewNext
     IN  /\ cmCompared' = IF equal THEN cmCompared + 1 ELSE cmCompared
         /\ IF oldId < newId
            THEN /\ cmLeft' = cmLeft + 1
                 /\ cmClassified' = Append(classified1, [id |-> oldId, as |-> "left"])
                 /\ cmOldNext' = oldNext1 + 1
                 /\ cmNewNext' = newNext1
                 /\ UNCHANGED cmJoined
            ELSE /\ cmJoined' = cmJoined + 1
                 /\ cmClassified' = Append(classified1, [id |-> newId, as |-> "joined"])
                 /\ cmNewNext' = newNext1 + 1
                 /\ cmOldNext' = oldNext1
                 /\ UNCHANGED cmLeft
  /\ UNCHANGED <<cmStatus, cmOld, cmNew>>
  /\ UNCHANGED notCompare

\* the merge loop ends: one of the iterators is done (the statistics are
\* written here)
CompareMergeEnd ==
  /\ cmStatus = "merge"
  /\ OldEntry.done \/ NewEntry.done
  /\ cmStatus' = "drainOld"
  /\ UNCHANGED <<cmOld, cmNew, cmOldNext, cmNewNext, cmLeft, cmJoined, cmCompared,
                 cmClassified>>
  /\ UNCHANGED notCompare

\* while (!oldEntry.done) { onLeave(oldEntry.value); ... }
CompareDrainOld ==
  /\ cmStatus = "drainOld"
  /\ IF OldEntry.done
     THEN /\ cmStatus' = "drainNew"
          /\ UNCHANGED <<cmOldNext, cmLeft, cmClassified>>
     ELSE /\ cmLeft' = cmLeft + 1
          /\ cmClassified' = Append(cmClassified, [id |-> OldEntry.id, as |-> "left"])
          /\ cmOldNext' = cmOldNext + 1
          /\ UNCHANGED cmStatus
  /\ UNCHANGED <<cmOld, cmNew, cmNewNext, cmJoined, cmCompared>>
  /\ UNCHANGED notCompare

\* while (!newEntry.done) { onJoin(newEntry.value); ... }
CompareDrainNew ==
  /\ cmStatus = "drainNew"
  /\ IF NewEntry.done
     THEN /\ cmStatus' = "done"
          /\ UNCHANGED <<cmNewNext, cmJoined, cmClassified>>
     ELSE /\ cmJoined' = cmJoined + 1
          /\ cmClassified' = Append(cmClassified, [id |-> NewEntry.id, as |-> "joined"])
          /\ cmNewNext' = cmNewNext + 1
          /\ UNCHANGED cmStatus
  /\ UNCHANGED <<cmOld, cmNew, cmOldNext, cmLeft, cmCompared>>
  /\ UNCHANGED notCompare

NextCompare ==
  \/ CompareStart
  \/ CompareMerge
  \/ CompareMergeEnd
  \/ CompareDrainOld
  \/ CompareDrainNew

SpecCompare == InitCompare /\ [][NextCompare]_vars

\* the user ids of a journal
IdsOf(journal) == { journal[i] : i \in 1..Len(journal) }

\* the number of times user id was classified
TimesClassified(id) ==
  Cardinality({ i \in 1..Len(cmClassified) : cmClassified[i].id = id })

\* user id was classified as kind
ClassifiedAs(id, kind) ==
  \E i \in 1..Len(cmClassified) : cmClassified[i] = [id |-> id, as |-> kind]

\* C28 (as claimed): when the compare tool has finished, every user id of
\* the two directories was classified exactly once: compared when it is in
\* both, left when only in the old one, joined when only in the new one; so
\* left + compared = |old| and joined + compared = |new|.
C28_EveryUserClassifiedOnce ==
  cmStatus = "done" =>
    /\ \A id \in IdsOf(cmOld) \cup IdsOf(cmNew) :
         /\ TimesClassified(id) = 1
         /\ ClassifiedAs(id, IF id \in IdsOf(cmOld) /\ id \in IdsOf(cmNew) THEN "compared"
                             ELSE IF id \in IdsOf(cmOld) THEN "left"
                             ELSE "joined")
    /\ cmLeft + cmCompared = Len(cmOld)
    /\ cmJoined + cmCompared = Len(cmNew)


(***************************************************************************)
(* Restarting the harvester on a directory that holds the chunks of        *)
(* earlier runs (specification SpecHarvester).                             *)
(***************************************************************************)
\* the user ids of the records of chunk c, compressed or not, in order
ChunkRecords(xz, json, c) == xz[c].ids \o json[c].ids

\* every record a chunk held before the step is in place after it: records
\* are only appended
RecordsKept ==
  \A c \in 1..MaxChunks :
    LET before == ChunkRecords(hvXz, hvJson, c)
        after == ChunkRecords(hvXz', hvJson', c)
    IN  /\ Len(before) <= Len(after)
        /\ SubSeq(after, 1, Len(before)) = before

\* the run that starts resumes after the largest user id of the journals
ResumesAfterLargest ==
  (HarvesterStart /\ hvStatus' = "running") => hvCurrent' = MaxOf(JournalIds(1)) + 1

\* C29 (as claimed): no step of the harvester, a restart on a directory with
\* the chunks of earlier runs included, removes or overwrites a record
\* written before: journals are only appended to, and a restarted run
\* resumes at the largest user id written plus one.
C29_RestartKeepsRecords == [][RecordsKept /\ ResumesAfterLargest]_vars


(***************************************************************************)
(* keysFileName, one iteration of its loop at a time.                      *)
(***************************************************************************)
\* largest of the consecutive chunk ids keysFileName is called on
MaxSmallChunk == 30
\* largest number of iterations of the loop that are followed
MaxPadSteps == 4

\* the chunk ids keysFileName is called on: the first ones, and those where
\* the number of decimal digits changes
ChunkIds == (1..MaxSmallChunk) \cup {99, 100, 999, 1000, 9999, 10000, 10001}

\* the call keysFileName(chunkId), up to: let chunk = chunkId.toString()
InitKeysFileName ==
  /\ CheckIdle
  /\ FlattenIdle
  /\ OnlyRunning("keysFileName")
  /\ knStatus = "loop"
  /\ knChunkId \in ChunkIds
  /\ knChunk = ToDec(knChunkId)
  /\ knSteps = 0
  /\ knName = <<>>

\* while (chunk.length !== 4) { chunk = '0' + chunk; }: one iteration
KeysFileNamePad ==
  /\ knStatus = "loop"
  /\ Len(knChunk) # 4
  /\ knSteps < MaxPadSteps
  /\ knChunk' = <<"0">> \o knChunk
  /\ knSteps' = knSteps + 1
  /\ UNCHANGED <<knStatus, knChunkId, knName>>
  /\ UNCHANGED notKeysFileName

\* the loop ends: return KEYS_FILE_PREFIX + chunk + KEYS_FILE_POSTFIX
KeysFileNameReturn ==
  /\ knStatus = "loop"
  /\ Len(knChunk) = 4
  /\ knStatus' = "returned"
  /\ knName' = KeysPrefix \o knChunk \o JsonPostfix
  /\ UNCHANGED <<knChunkId, knChunk, knSteps>>
  /\ UNCHANGED notKeysFileName

NextKeysFileName == KeysFileNamePad \/ KeysFileNameReturn

SpecKeysFileName == InitKeysFileName /\ [][NextKeysFileName]_vars

\* the decimal digits of n, zero-padded on the left to four digits
FourDigits(n) ==
  <<HexChars[((n \div 1000) % 10) + 1], HexChars[((n \div 100) % 10) + 1],
    HexChars[((n \div 10) % 10) + 1], HexChars[(n % 10) + 1]>>

\* C30 (as claimed): for every chunk id c >= 1 keysFileName terminates (the
\* string its loop has padded never has more than four characters, so that
\* the loop ends after at most three iterations) and returns keys-, c
\* zero-padded to four digits, .json.
C30_KeysFileNameTerminates ==
  /\ (knStatus = "loop" /\ knSteps >= 1) => (Len(knChunk) <= 4 /\ knSteps <= 3)
  /\ knStatus = "returned" => knName = KeysPrefix \o FourDigits(knChunkId) \o JsonPostfix

====
